---- MODULE Spec2Model ----
(***************************************************************************)
(* Trust Score Engine of mark-backend (src/src/services/TrustScoreService.ts) *)
(* and the request handlers that drive it.  Every request runs as a        *)
(* sequence of blocking store calls; a step of the model is one store call  *)
(* (one await), so that requests of different connections interleave       *)
(* exactly where the code can be preempted.                                *)
(***************************************************************************)
EXTENDS Integers, Sequences, FiniteSets, TLC

\* ------------------------------------------------------------------ bounds
\* Number of requests that may be started in one behaviour.
MaxOps == 2
\* The largest seeded manual deduction, the largest number of seeded
\* penalties and the longest seeded ledger of the stores of ScoreSpec.
MaxAdjustment == 110
MaxPenalties == 4
MaxEvents == 14

\* ------------------------------------------------- config.trustScore values
baseScore == 50
maxScore == 100
minScore == 0
identityVerified == 20
liquidityLock6Months == 15
liquidityLock12Months == 20
vesting12Months == 10
vesting24Months == 15
cryptoProfileComplete == 10
externalAudit == 10
whitepaperSocials == 5
contractVerified == 5
kybBasic == 10
kybStandard == 15
kybEnhanced == 20
financialDocs == 15
einRegistration == 10
businessProfileComplete == 10
externalAccountingReview == 10
missedReport == -15
communityReport == -15
\* `take: 10` of the history query.
historyTake == 10

\* ------------------------------------------------------------ the universe
\* The ids, in the order findMany returns the rows.
ProjectIds == <<"p1", "p2">>
BusinessIds == <<"b1", "b2">>
Projects == {ProjectIds[i] : i \in 1..Len(ProjectIds)}
Businesses == {BusinessIds[i] : i \in 1..Len(BusinessIds)}
Entities == Projects \cup Businesses
Users == {"u1", "u2"}
\* The rows the store of Spec starts with and their owner: the requests of
\* Spec address these.
Stored == {"p1", "b1"}
Owners == {"u1"}
\* Request slots: the connections that may run concurrently.
Requests == {"r1", "r2"}
\* Inputs the requests are drawn from.
Undef == -1
AdjustPoints == {-60, 0, 25}
LockMonths == {3, 12}
VestingMonths == {24}
KybLevels == {"NONE", "ENHANCED"}
DocTypes == {"financial"}
WebhookStatuses == {"VERIFIED", "REJECTED"}
BusinessStatuses == {"APPROVED"}
Null == "null"
NoScore == minScore - 1

\* userId of a row: u1 owns every entity but b2.
userIdOf(e) == IF e = "b2" THEN "u2" ELSE "u1"

\* -------------------------------------------------------------- arithmetic
Min(a, b) == IF a < b THEN a ELSE b
Max(a, b) == IF a > b THEN a ELSE b

RECURSIVE SumSeq(_)
SumSeq(s) == IF s = <<>> THEN 0 ELSE Head(s) + SumSeq(Tail(s))

RECURSIVE SelectSeqIdx(_, _)
\* The first n elements of s (all of s when it is shorter).
SelectSeqIdx(s, n) == IF n = 0 \/ s = <<>> THEN <<>>
                      ELSE <<Head(s)>> \o SelectSeqIdx(Tail(s), n - 1)

RECURSIVE Reverse(_)
Reverse(s) == IF s = <<>> THEN <<>> ELSE Reverse(Tail(s)) \o <<Head(s)>>

\* Math.max(minScore, Math.min(maxScore, totalScore))
ClampNoCap(t) == Max(minScore, t)
ClampNoFloor(t) == Min(maxScore, t)
Clamp(t) == Max(minScore, Min(maxScore, t))

\* ------------------------------------------------------------------- tiers
getTierAbove(score) ==
    IF score > 85 THEN "EXCELLENT"
    ELSE IF score > 70 THEN "GOOD"
    ELSE IF score > 50 THEN "NEUTRAL"
    ELSE IF score > 30 THEN "CAUTION"
    ELSE "HIGH_RISK"
getTier(score) ==
    IF score >= 85 THEN "EXCELLENT"
    ELSE IF score >= 70 THEN "GOOD"
    ELSE IF score >= 50 THEN "NEUTRAL"
    ELSE IF score >= 30 THEN "CAUTION"
    ELSE "HIGH_RISK"

\* ------------------------------------------------------------ rule tables
\* A row carries its months as numbers (0 models null) and every other
\* column the rules read as a boolean, TRUE when the column is truthy
\* (teamAllocationPercent: when it is not null; social: any of twitter,
\* discord, telegram).  The context carries the owner's identity status and
\* the document flags.

\* requiredFields.filter(Boolean).length
Truthy(fields) == SumSeq([i \in 1..Len(fields) |-> IF fields[i] THEN 1 ELSE 0])

\* Math.floor(completeness * max), completeness = truthy / length
ProfilePointsAllOrNothing(fields, max) ==
    IF Truthy(fields) = Len(fields) THEN max ELSE 0
ProfilePoints(fields, max) == (Truthy(fields) * max) \div Len(fields)

cryptoRulesDoubleCounted(p, ctx) == <<
    IF ctx.identity = "VERIFIED" THEN identityVerified ELSE 0,
    IF p.liquidityLockMonths # 0 /\ p.liquidityLockMonths >= 6
        THEN liquidityLock6Months ELSE 0,
    IF p.liquidityLockMonths # 0 /\ p.liquidityLockMonths >= 12
        THEN liquidityLock12Months ELSE 0,
    IF p.teamVestingMonths # 0 /\ p.teamVestingMonths >= 12
        THEN vesting12Months ELSE 0,
    IF p.teamVestingMonths # 0 /\ p.teamVestingMonths >= 24
        THEN vesting24Months - vesting12Months ELSE 0,
    ProfilePoints(<<p.name, p.description, p.category, p.totalSupply,
                    p.teamAllocationPercent>>, cryptoProfileComplete),
    IF p.auditProvider /\ p.auditReportUrl THEN externalAudit ELSE 0,
    Min((IF p.whitepaper THEN 2 ELSE 0) + (IF p.social THEN 3 ELSE 0),
        whitepaperSocials),
    IF p.contractVerified THEN contractVerified ELSE 0 >>
cryptoRules(p, ctx) == <<
    IF ctx.identity = "VERIFIED" THEN identityVerified ELSE 0,
    IF p.liquidityLockMonths # 0 /\ p.liquidityLockMonths >= 6
        THEN liquidityLock6Months ELSE 0,
    IF p.liquidityLockMonths # 0 /\ p.liquidityLockMonths >= 12
        THEN liquidityLock12Months - liquidityLock6Months ELSE 0,
    IF p.teamVestingMonths # 0 /\ p.teamVestingMonths >= 12
        THEN vesting12Months ELSE 0,
    IF p.teamVestingMonths # 0 /\ p.teamVestingMonths >= 24
        THEN vesting24Months - vesting12Months ELSE 0,
    ProfilePoints(<<p.name, p.description, p.category, p.totalSupply,
                    p.teamAllocationPercent>>, cryptoProfileComplete),
    IF p.auditProvider /\ p.auditReportUrl THEN externalAudit ELSE 0,
    Min((IF p.whitepaper THEN 2 ELSE 0) + (IF p.social THEN 3 ELSE 0),
        whitepaperSocials),
    IF p.contractVerified THEN contractVerified ELSE 0 >>

\* businessRules whose KYB rules award the whole bonus of their level.
businessRulesCumulative(b, ctx) == <<
    IF b.kybLevel \in {"BASIC", "STANDARD", "ENHANCED"} THEN kybBasic ELSE 0,
    IF b.kybLevel \in {"STANDARD", "ENHANCED"} THEN kybStandard ELSE 0,
    IF b.kybLevel = "ENHANCED" THEN kybEnhanced ELSE 0,
    IF ctx.hasFinancialDocs THEN financialDocs ELSE 0,
    IF b.ein \/ b.registrationNumber THEN einRegistration ELSE 0,
    ProfilePoints(<<b.legalName, b.entityType, b.jurisdiction, b.description,
                    b.industry, b.businessEmail, b.website>>,
                  businessProfileComplete),
    IF ctx.hasAuditDocs THEN externalAccountingReview ELSE 0 >>
businessRules(b, ctx) == <<
    IF b.kybLevel \in {"BASIC", "STANDARD", "ENHANCED"} THEN kybBasic ELSE 0,
    IF b.kybLevel \in {"STANDARD", "ENHANCED"}
        THEN kybStandard - kybBasic ELSE 0,
    IF b.kybLevel = "ENHANCED" THEN kybEnhanced - kybStandard ELSE 0,
    IF ctx.hasFinancialDocs THEN financialDocs ELSE 0,
    IF b.ein \/ b.registrationNumber THEN einRegistration ELSE 0,
    ProfilePoints(<<b.legalName, b.entityType, b.jurisdiction, b.description,
                    b.industry, b.businessEmail, b.website>>,
                  businessProfileComplete),
    IF ctx.hasAuditDocs THEN externalAccountingReview ELSE 0 >>

\* rule.name and rule.maxPoints of the two rule tables, in table order.
cryptoRuleNames == <<
    "Identity Verification", "Liquidity Lock (6+ months)",
    "Liquidity Lock (12+ months)", "Team Vesting (12+ months)",
    "Team Vesting (24+ months)", "Complete Profile", "External Audit",
    "Whitepaper & Socials", "Contract Verified" >>
cryptoMaxPoints == <<
    identityVerified, liquidityLock6Months,
    liquidityLock12Months - liquidityLock6Months, vesting12Months,
    vesting24Months - vesting12Months, cryptoProfileComplete, externalAudit,
    whitepaperSocials, contractVerified >>
businessRuleNames == <<
    "KYB Basic", "KYB Standard", "KYB Enhanced", "Financial Documents",
    "EIN / Registration", "Complete Profile", "External Accounting Review" >>
businessMaxPoints == <<
    kybBasic, kybStandard - kybBasic, kybEnhanced - kybStandard,
    financialDocs, einRegistration, businessProfileComplete,
    externalAccountingReview >>

\* The factors the rule loop pushes, one per rule, from the points the
\* rules returned.
Factors(names, maxes, points) ==
    [k \in 1..Len(points) |->
        [name |-> names[k], points |-> points[k], maxPoints |-> maxes[k],
         achieved |-> points[k] > 0]]

\* ------------------------------------------------------------------- state
VARIABLES
    project,    \* CryptoProject rows, by id
    business,   \* Business rows (with the flags of their documents), by id
    identity,   \* PrivateIdentityVerification.status, by user
    ledger,     \* TrustScoreEvent rows in creation order
    nextId,     \* the id the next TrustScoreEvent row gets
    proc,       \* the request running in each slot
    started     \* requests started so far

vars == <<project, business, identity, ledger, nextId, proc, started>>

\* SystemLog is a write-only sink: no request reads it.  Each request keeps
\* the audit records of category TRUST_SCORE it has written (audits) and
\* whether one of its log writes failed (logFailed); the table is the
\* records of all requests.  The records the handlers write in the other
\* categories (PROJECT, BUSINESS, ADMIN, IDENTITY) are left out.
AuditActions == {"SCORE_CALCULATED", "ADMIN_ADJUSTMENT"}

\* Inputs of POST /projects and POST /businesses: name / legalName is
\* required, every other column is optional.  The documents and founders of
\* a business are rows of their own tables, which no modelled handler
\* changes; they are part of the business as created.
ProjectCreateInputs == {
    [description |-> FALSE, category |-> FALSE, totalSupply |-> FALSE,
     teamAllocationPercent |-> FALSE,
     liquidityLockMonths |-> 0, teamVestingMonths |-> 0,
     auditProvider |-> FALSE, auditReportUrl |-> FALSE, whitepaper |-> FALSE,
     social |-> FALSE],
    [description |-> TRUE, category |-> TRUE, totalSupply |-> TRUE,
     teamAllocationPercent |-> TRUE,
     liquidityLockMonths |-> 12, teamVestingMonths |-> 24,
     auditProvider |-> TRUE, auditReportUrl |-> TRUE, whitepaper |-> TRUE,
     social |-> TRUE] }

BusinessCreateInputs == {
    [entityType |-> FALSE, jurisdiction |-> FALSE, description |-> FALSE,
     industry |-> FALSE, businessEmail |-> FALSE, website |-> FALSE,
     ein |-> FALSE, registrationNumber |-> FALSE, founders |-> FALSE,
     hasFinancialDocs |-> FALSE, hasAuditDocs |-> FALSE],
    [entityType |-> TRUE, jurisdiction |-> TRUE, description |-> TRUE,
     industry |-> TRUE, businessEmail |-> TRUE, website |-> TRUE,
     ein |-> TRUE, registrationNumber |-> FALSE, founders |-> TRUE,
     hasFinancialDocs |-> TRUE, hasAuditDocs |-> TRUE] }

\* The stores the model starts from: every entity bare, or every entity
\* with all its optional columns filled in.
Worlds == {<<pin, bin>> \in ProjectCreateInputs \X BusinessCreateInputs :
               pin.description = bin.description}

\* The row prisma.cryptoProject.create leaves: status DRAFT, trustScore 50
\* (column default), trustScoreUpdatedAt null, contractVerified false.
NewProject(in) ==
    [exists |-> TRUE, status |-> "DRAFT", name |-> TRUE,
     description |-> in.description, category |-> in.category,
     totalSupply |-> in.totalSupply,
     teamAllocationPercent |-> in.teamAllocationPercent,
     liquidityLockMonths |-> in.liquidityLockMonths,
     teamVestingMonths |-> in.teamVestingMonths,
     auditProvider |-> in.auditProvider, auditReportUrl |-> in.auditReportUrl,
     whitepaper |-> in.whitepaper, social |-> in.social,
     contractVerified |-> FALSE,
     trustScore |-> baseScore, trustScoreUpdatedAt |-> FALSE]

NewBusiness(in) ==
    [exists |-> TRUE, status |-> "DRAFT", kybLevel |-> "NONE",
     legalName |-> TRUE, entityType |-> in.entityType,
     jurisdiction |-> in.jurisdiction, description |-> in.description,
     industry |-> in.industry, businessEmail |-> in.businessEmail,
     website |-> in.website,
     ein |-> in.ein, registrationNumber |-> in.registrationNumber,
     founders |-> in.founders, hasFinancialDocs |-> in.hasFinancialDocs,
     hasAuditDocs |-> in.hasAuditDocs,
     trustScore |-> baseScore, trustScoreUpdatedAt |-> FALSE]

\* The row of a deleted project, and of one that was never created.
DeletedProject ==
    [NewProject(CHOOSE in \in ProjectCreateInputs : ~in.description)
        EXCEPT !.exists = FALSE]

\* The row of a business that was never created.
NoBusiness ==
    [NewBusiness(CHOOSE in \in BusinessCreateInputs : ~in.description)
        EXCEPT !.exists = FALSE]

\* A request slot.  prog is what is left to run; pc is the position inside
\* calculate*Score; factors, raw, total, hist are its locals while it runs
\* (raw is totalScore before the clamp); result is the
\* TrustScoreResult.currentScore last returned to the request, tier and
\* history the tier and the history of that result.  id and pts are the
\* entity id (the user id of an identity webhook) and the points of the
\* request, events the ids of the
\* TrustScoreEvent rows it has created, calcs the entity ids of the
\* calculate*Score calls that returned to it.
Idle == [op |-> "idle", id |-> Null, pts |-> 0, prog |-> <<>>, pc |-> "next",
         factors |-> <<>>, raw |-> 0, total |-> 0, hist |-> <<>>,
         result |-> NoScore, tier |-> Null, history |-> <<>>,
         events |-> <<>>, calcs |-> <<>>, audits |-> <<>>,
         logFailed |-> FALSE, status |-> "idle"]

Instr(k, id, typ, evt, pts, by) ==
    [k |-> k, id |-> id, typ |-> typ, evt |-> evt, pts |-> pts, by |-> by]

CalcInstr(id, typ) == Instr("calc", id, typ, Null, 0, Null)
AuditInstr(action) == Instr("audit", Null, Null, action, 0, Null)

Init ==
    /\ \E w \in Worlds :
          /\ project = [id \in Projects |->
                IF id \in Stored THEN NewProject(w[1]) ELSE DeletedProject]
          /\ business = [id \in Businesses |->
                IF id \in Stored THEN NewBusiness(w[2]) ELSE NoBusiness]
    /\ identity = [u \in Users |-> "NOT_STARTED"]
    /\ ledger = <<>>
    /\ nextId = 1
    /\ proc = [r \in Requests |-> Idle]
    /\ started = 0

\* --------------------------------------------------------- store queries
ProjectFound(id) == id \in Projects /\ project[id].exists
BusinessFound(id) == id \in Businesses /\ business[id].exists

\* trustScoreEvent.findMany({ where: { projectId | businessId: id } })
EventsOf(id, typ) ==
    SelectSeq(ledger, LAMBDA ev:
        IF typ = "project" THEN ev.projectId = id ELSE ev.businessId = id)

\* ... with points: { lt: 0 }
PenaltyEventsLatest(id, typ) ==
    SelectSeqIdx(Reverse(SelectSeq(EventsOf(id, typ), LAMBDA ev: ev.points < 0)),
                 1)
PenaltyEventsAnySign(id, typ) == EventsOf(id, typ)
PenaltyEventsAllEntities(id, typ) == SelectSeq(ledger, LAMBDA ev: ev.points < 0)
PenaltyEventsWithManual(id, typ) ==
    SelectSeq(EventsOf(id, typ), LAMBDA ev:
        ev.points < 0 \/ ev.eventType = "MANUAL_ADJUSTMENT")
PenaltyEvents(id, typ) == SelectSeq(EventsOf(id, typ), LAMBDA ev: ev.points < 0)

PointsOf(evs) == [i \in 1..Len(evs) |-> evs[i].points]

\* orderBy: { createdAt: 'desc' }, take: 10; the rows returned (the ids of
\* the rows grow with createdAt).
HistoryOfPenalties(id, typ) ==
    SelectSeqIdx(Reverse(PenaltyEvents(id, typ)), historyTake)
History(id, typ) == SelectSeqIdx(Reverse(EventsOf(id, typ)), historyTake)

\* The score fields of an entity, whatever its kind.
Row(e) == IF e \in Projects THEN project[e] ELSE business[e]
KindOf(e) == IF e \in Projects THEN "project" ELSE "business"

\* The rule points of the entity as stored now.
RulePointsNow(e) ==
    IF e \in Projects
    THEN SumSeq(cryptoRules(project[e], [identity |-> identity[userIdOf(e)]]))
    ELSE SumSeq(businessRules(business[e],
                    [hasFinancialDocs |-> business[e].hasFinancialDocs,
                     hasAuditDocs |-> business[e].hasAuditDocs]))


\* ------------------------------------------------------- request plumbing
Running(r) == proc[r].status = "run"
Cur(r) == Head(proc[r].prog)
AtInstr(r, k) ==
    Running(r) /\ proc[r].pc = "next" /\ proc[r].prog # <<>> /\ Cur(r).k = k

\* The slot after its current instruction returned normally.
Advance(p) ==
    LET rest == Tail(p.prog)
    IN  [p EXCEPT !.prog = rest, !.pc = "next",
                  !.status = IF rest = <<>> THEN "ok" ELSE "run"]

\* The slot after a store call threw: nothing of the request runs any more.
ThrowSwallowed(p) ==
    [p EXCEPT !.prog = Tail(@), !.pc = "next",
              !.status = IF Tail(p.prog) = <<>> THEN "ok" ELSE "run",
              !.factors = <<>>, !.raw = 0, !.total = 0, !.hist = <<>>]
Throw(p) == [p EXCEPT !.prog = <<>>, !.pc = "next", !.status = "error",
                      !.factors = <<>>, !.raw = 0, !.total = 0, !.hist = <<>>]

\* Slot r is free, and so is no slot before it (which connection serves a
\* request makes no difference).
Free(r) ==
    /\ proc[r].status = "idle"
    /\ r = "r2" => proc["r1"].status # "idle"

\* A request enters slot r and is refused before it changes anything
\* (a 4xx response).
Refuse(r, op, id) ==
    /\ Free(r)
    /\ started < MaxOps
    /\ started' = started + 1
    /\ proc' = [proc EXCEPT ![r] =
                  [Idle EXCEPT !.op = op, !.id = id, !.status = "error"]]

\* A request enters slot r with the given program.
Begin(r, op, id, pts, prog) ==
    /\ Free(r)
    /\ started < MaxOps
    /\ started' = started + 1
    /\ proc' = [proc EXCEPT ![r] =
                  [Idle EXCEPT !.op = op, !.id = id, !.pts = pts, !.prog = prog,
                               !.status = IF prog = <<>> THEN "ok" ELSE "run"]]

\* logger.log in slot p: the SystemLog row is written, or the write fails
\* and the failure is swallowed.
Logged(p, action) ==
    {[p EXCEPT !.audits = Append(@, action)], [p EXCEPT !.logFailed = TRUE]}

\* recordEvent: one trustScoreEvent.create, then calculate*Score of the same
\* id (calculateProjectScore iff entityType is 'project').
recordEvent(id, typ, evt, pts, by) ==
    << Instr("create", id, typ, evt, pts, by), CalcInstr(id, typ) >>

\* ------------------------------------------------ steps of a running request
\* prisma.trustScoreEvent.create of recordEvent.  A reference to a row that
\* does not exist violates the foreign key and the create throws.
Create(r) ==
    /\ AtInstr(r, "create")
    /\ LET i == Cur(r)
           pid == IF i.typ = "project" THEN i.id ELSE Null
           bid == IF i.typ = "business" THEN i.id ELSE Null
           ok == /\ pid # Null => ProjectFound(pid)
                 /\ bid # Null => BusinessFound(bid)
       IN  IF ok
           THEN /\ ledger' = Append(ledger,
                       [id |-> nextId, projectId |-> pid, businessId |-> bid,
                        eventType |-> i.evt, points |-> i.pts,
                        triggeredBy |-> i.by])
                /\ nextId' = nextId + 1
                /\ proc' = [proc EXCEPT ![r] =
                                Advance([@ EXCEPT !.events = Append(@, nextId)])]
           ELSE /\ proc' = [proc EXCEPT ![r] = Throw(@)]
                /\ UNCHANGED <<ledger, nextId>>
    /\ UNCHANGED <<project, business, identity, started>>

\* A rule loop that starts from the stored score of the row.
CalcReadIncremental(r) ==
    /\ AtInstr(r, "calc")
    /\ LET i == Cur(r)
           found == IF i.typ = "project" THEN ProjectFound(i.id)
                    ELSE BusinessFound(i.id)
           factors == IF i.typ = "project"
                      THEN cryptoRules(project[i.id],
                               [identity |-> identity[userIdOf(i.id)]])
                      ELSE businessRules(business[i.id],
                               [hasFinancialDocs |-> business[i.id].hasFinancialDocs,
                                hasAuditDocs |-> business[i.id].hasAuditDocs])
       IN  proc' = [proc EXCEPT ![r] =
                IF found
                THEN [@ EXCEPT !.pc = "penalties", !.factors = factors,
                               !.raw = Row(i.id).trustScore + SumSeq(factors),
                               !.total = 0, !.hist = <<>>]
                ELSE Throw(@)]
    /\ UNCHANGED <<project, business, identity, ledger, nextId, started>>

\* calculate*Score, findUnique and the rule loop: the row and its context
\* are read, every rule is evaluated, totalScore = baseScore + the points.
CalcRead(r) ==
    /\ AtInstr(r, "calc")
    /\ LET i == Cur(r)
           found == IF i.typ = "project" THEN ProjectFound(i.id)
                    ELSE BusinessFound(i.id)
           factors == IF i.typ = "project"
                      THEN cryptoRules(project[i.id],
                               [identity |-> identity[userIdOf(i.id)]])
                      ELSE businessRules(business[i.id],
                               [hasFinancialDocs |-> business[i.id].hasFinancialDocs,
                                hasAuditDocs |-> business[i.id].hasAuditDocs])
       IN  proc' = [proc EXCEPT ![r] =
                IF found
                THEN [@ EXCEPT !.pc = "penalties", !.factors = factors,
                               !.raw = baseScore + SumSeq(factors),
                               !.total = 0, !.hist = <<>>]
                ELSE Throw(@)]
    /\ UNCHANGED <<project, business, identity, ledger, nextId, started>>

\* calculate*Score, the penalty query, its loop, the clamp and the
\* history query (the two queries read the same table and nothing is
\* written between them).
CalcPenalties(r) ==
    /\ Running(r) /\ proc[r].pc = "penalties"
    /\ LET i == Cur(r)
           raw == proc[r].raw + SumSeq(PointsOf(PenaltyEvents(i.id, i.typ)))
       IN  proc' = [proc EXCEPT ![r] =
                [@ EXCEPT !.pc = "update", !.raw = raw, !.total = Clamp(raw),
                          !.hist = History(i.id, i.typ)]]
    /\ UNCHANGED <<project, business, identity, ledger, nextId, started>>

\* calculate*Score returns: its locals are gone, the result is kept.
\* history.map(...) of the result: every entry carries totalScore.
historyEntries(hist, totalScore) ==
    [k \in 1..Len(hist) |->
        [date |-> hist[k].id, score |-> totalScore,
         eventType |-> hist[k].eventType, points |-> hist[k].points]]

ReturnRaw(p) ==
    [p EXCEPT !.result = p.raw, !.tier = getTier(p.raw),
              !.history = historyEntries(p.hist, p.raw),
              !.calcs = Append(@, Head(p.prog).id),
              !.factors = <<>>, !.raw = 0, !.total = 0, !.hist = <<>>]
Return(p) ==
    [p EXCEPT !.result = p.total, !.tier = getTier(p.total),
              !.history = historyEntries(p.hist, p.total),
              !.calcs = Append(@, Head(p.prog).id),
              !.factors = <<>>, !.raw = 0, !.total = 0, !.hist = <<>>]

WrittenOnTop(row, t) ==
    [row EXCEPT !.trustScore = @ + t, !.trustScoreUpdatedAt = TRUE]
Written(row, t) == [row EXCEPT !.trustScore = t, !.trustScoreUpdatedAt = TRUE]

\* calculate*Score, the update of trustScore and trustScoreUpdatedAt (it
\* throws when the row is gone), then the SCORE_CALCULATED audit record and
\* the return of the result.  No request reads SystemLog, so the two store
\* calls are taken in one step.
CalcUpdate(r) ==
    /\ Running(r) /\ proc[r].pc = "update"
    /\ LET i == Cur(r)
           t == proc[r].total
           found == IF i.typ = "project" THEN ProjectFound(i.id)
                    ELSE BusinessFound(i.id)
       IN  IF found
           THEN /\ project' = IF i.typ = "project"
                              THEN [project EXCEPT ![i.id] = Written(@, t)]
                              ELSE project
                /\ business' = IF i.typ = "project" THEN business
                               ELSE [business EXCEPT ![i.id] = Written(@, t)]
                /\ \E p \in Logged(proc[r], "SCORE_CALCULATED") :
                      proc' = [proc EXCEPT ![r] = Advance(Return(p))]
           ELSE /\ proc' = [proc EXCEPT ![r] = Throw(@)]
                /\ UNCHANGED <<project, business>>
    /\ UNCHANGED <<identity, ledger, nextId, started>>

\* A logger.audit call of a handler or of adminAdjust.
AuditThrows(r) ==
    /\ AtInstr(r, "audit")
    /\ \/ proc' = [proc EXCEPT ![r] =
                       Advance([@ EXCEPT !.audits = Append(@, Cur(r).evt)])]
       \/ proc' = [proc EXCEPT ![r] = Throw(@)]
    /\ UNCHANGED <<project, business, identity, ledger, nextId, started>>
Audit(r) ==
    /\ AtInstr(r, "audit")
    /\ \E p \in Logged(proc[r], Cur(r).evt) :
          proc' = [proc EXCEPT ![r] = Advance(p)]
    /\ UNCHANGED <<project, business, identity, ledger, nextId, started>>

\* The response is sent and the connection is free again.
Respond(r) ==
    /\ proc[r].status \in {"ok", "error"}
    /\ proc' = [proc EXCEPT ![r] = Idle]
    /\ UNCHANGED <<project, business, identity, ledger, nextId, started>>


\* ------------------------------------------------------- the service's API
\* getProjectScore / getBusinessScore
GetScoreCached(r, id, typ) ==
    /\ Begin(r, "getScore", id, 0,
             IF Row(id).trustScoreUpdatedAt THEN <<>>
             ELSE <<CalcInstr(id, typ)>>)
    /\ UNCHANGED <<project, business, identity, ledger, nextId>>
GetScore(r, id, typ) ==
    /\ Begin(r, "getScore", id, 0, <<CalcInstr(id, typ)>>)
    /\ UNCHANGED <<project, business, identity, ledger, nextId>>

adminAdjustProg(id, typ, pts) ==
    recordEvent(id, typ, "MANUAL_ADJUSTMENT", pts, "admin")
        \o <<AuditInstr("ADMIN_ADJUSTMENT"), CalcInstr(id, typ)>>

\* POST /admin/trust-score/adjust with every field present, and adminAdjust.
\* The handler takes entityType from the body as it comes: the kind of the
\* entity, or a string that is neither 'project' nor 'business'.
AdjustTypes(id) == {KindOf(id), "other"}

AdminAdjust(r, id, typ, pts) ==
    /\ Begin(r, "adminAdjust", id, pts, adminAdjustProg(id, typ, pts))
    /\ UNCHANGED <<project, business, identity, ledger, nextId>>

ApplyMissedReportPenalty(r, id) ==
    /\ Begin(r, "applyMissedReportPenalty", id, 0,
             recordEvent(id, "business", "PENALTY_APPLIED", missedReport, "system"))
    /\ UNCHANGED <<project, business, identity, ledger, nextId>>

ApplyCommunityReportPenalty(r, id, typ) ==
    /\ Begin(r, "applyCommunityReportPenalty", id, 0,
             recordEvent(id, typ, "PENALTY_APPLIED", communityReport, "governance"))
    /\ UNCHANGED <<project, business, identity, ledger, nextId>>

liquidityPoints(months) ==
    IF months >= 12 THEN liquidityLock12Months
    ELSE IF months >= 6 THEN liquidityLock6Months ELSE 0

OnLiquidityLocked(r, id, months) ==
    /\ Begin(r, "onLiquidityLocked", id, 0,
             IF liquidityPoints(months) > 0
             THEN recordEvent(id, "project", "LIQUIDITY_LOCKED",
                              liquidityPoints(months), "system")
             ELSE <<>>)
    /\ UNCHANGED <<project, business, identity, ledger, nextId>>

vestingPoints(months) ==
    IF months >= 24 THEN vesting24Months
    ELSE IF months >= 12 THEN vesting12Months ELSE 0

OnVestingConfigured(r, id, months) ==
    /\ Begin(r, "onVestingConfigured", id, 0,
             IF vestingPoints(months) > 0
             THEN recordEvent(id, "project", "VESTING_CONFIGURED",
                              vestingPoints(months), "system")
             ELSE <<>>)
    /\ UNCHANGED <<project, business, identity, ledger, nextId>>

kybPoints(level) ==
    IF level = "ENHANCED" THEN kybEnhanced
    ELSE IF level = "STANDARD" THEN kybStandard
    ELSE IF level = "BASIC" THEN kybBasic ELSE 0

onKYBVerifiedRecalc(id, level) ==
    IF kybPoints(level) > 0
    THEN recordEvent(id, "business", "KYB_VERIFIED", kybPoints(level), "system")
    ELSE <<CalcInstr(id, "business")>>
onKYBVerified(id, level) ==
    IF kybPoints(level) > 0
    THEN recordEvent(id, "business", "KYB_VERIFIED", kybPoints(level), "system")
    ELSE <<>>

documentPoints(typ, docType) ==
    IF typ = "business" /\ docType = "financial" THEN financialDocs
    ELSE IF typ = "project" /\ docType = "audit" THEN externalAudit ELSE 0

OnDocumentsUploaded(r, id, typ, docType) ==
    /\ Begin(r, "onDocumentsUploaded", id, 0,
             IF documentPoints(typ, docType) > 0
             THEN recordEvent(id, typ, "DOCS_UPLOADED",
                              documentPoints(typ, docType), "system")
             ELSE <<>>)
    /\ UNCHANGED <<project, business, identity, ledger, nextId>>

RECURSIVE FanOut(_, _, _)
\* The loop of onIdentityVerified: one recordEvent per row, in order.
FanOut(ids, typ, pts) ==
    IF ids = <<>> THEN <<>>
    ELSE recordEvent(Head(ids), typ, "IDENTITY_VERIFIED", pts, "system")
         \o FanOut(Tail(ids), typ, pts)

OwnedProjectsOfAll(u) ==
    SelectSeq(ProjectIds, LAMBDA id: project[id].exists)
OwnedProjects(u) ==
    SelectSeq(ProjectIds, LAMBDA id: project[id].exists /\ userIdOf(id) = u)
OwnedBusinesses(u) ==
    SelectSeq(BusinessIds, LAMBDA id: business[id].exists /\ userIdOf(id) = u)

\* onIdentityVerified with the loop of the businesses first.
onIdentityVerifiedBusinessesFirst(u) ==
    FanOut(OwnedBusinesses(u), "business", kybBasic)
        \o FanOut(OwnedProjects(u), "project", identityVerified)
\* onIdentityVerified: both findMany, then the two loops.
onIdentityVerified(u) ==
    FanOut(OwnedProjects(u), "project", identityVerified)
        \o FanOut(OwnedBusinesses(u), "business", kybBasic)


\* ------------------------------------------------------------ the handlers
\* POST /identity/webhook for the verification of user u: the record is
\* updated; a VERIFIED one triggers onIdentityVerified and an audit record.
IdentityWebhook(r, u, status) ==
    /\ identity' = [identity EXCEPT ![u] = status]
    /\ Begin(r, "identityWebhook", u, 0,
             IF status = "VERIFIED"
             THEN onIdentityVerified(u)
             ELSE <<>>)
    /\ UNCHANGED <<project, business, ledger, nextId>>

\* Bodies of PATCH /projects/:id.  A field is Undef (absent: the column is
\* left alone), 0 (falsy) or a truthy value; months are the number itself.
ProjectPatchInputs == {
    [liquidityLockMonths |-> 6, teamVestingMonths |-> Undef,
     auditProvider |-> Undef, whitepaper |-> Undef],
    [liquidityLockMonths |-> Undef, teamVestingMonths |-> Undef,
     auditProvider |-> Undef, whitepaper |-> 1],
    [liquidityLockMonths |-> 0, teamVestingMonths |-> Undef,
     auditProvider |-> 0, whitepaper |-> Undef] }

Given(old, new) == IF new = Undef THEN old ELSE new
GivenFlag(old, new) == IF new = Undef THEN old ELSE new # 0

\* if (input.teamVestingMonths || input.liquidityLockMonths || input.auditProvider)
PatchRecalculates(in) ==
    \/ in.teamVestingMonths \notin {Undef, 0}
    \/ in.liquidityLockMonths \notin {Undef, 0}
    \/ in.auditProvider \notin {Undef, 0}

\* PATCH /projects/:id that also puts the score back to the base score.
PatchProjectResets(r, id, in) ==
    /\ IF ProjectFound(id)
       THEN /\ project' = [project EXCEPT
                   ![id].liquidityLockMonths = Given(@, in.liquidityLockMonths),
                   ![id].teamVestingMonths = Given(@, in.teamVestingMonths),
                   ![id].auditProvider = GivenFlag(@, in.auditProvider),
                   ![id].whitepaper = GivenFlag(@, in.whitepaper),
                   ![id].trustScore = baseScore]
            /\ Begin(r, "patchProject", id, 0,
                     IF PatchRecalculates(in) THEN <<CalcInstr(id, "project")>>
                     ELSE <<>>)
       ELSE /\ Refuse(r, "patchProject", id)
            /\ UNCHANGED project
    /\ UNCHANGED <<business, identity, ledger, nextId>>

\* PATCH /projects/:id by its owner (no project of the model is LIVE).
PatchProject(r, id, in) ==
    /\ IF ProjectFound(id)
       THEN /\ project' = [project EXCEPT
                   ![id].liquidityLockMonths = Given(@, in.liquidityLockMonths),
                   ![id].teamVestingMonths = Given(@, in.teamVestingMonths),
                   ![id].auditProvider = GivenFlag(@, in.auditProvider),
                   ![id].whitepaper = GivenFlag(@, in.whitepaper)]
            /\ Begin(r, "patchProject", id, 0,
                     IF PatchRecalculates(in) THEN <<CalcInstr(id, "project")>>
                     ELSE <<>>)
       ELSE /\ Refuse(r, "patchProject", id)
            /\ UNCHANGED project
    /\ UNCHANGED <<business, identity, ledger, nextId>>

\* POST /projects/:id/submit
SubmitProject(r, id) ==
    /\ IF /\ ProjectFound(id)
          /\ project[id].status \in {"DRAFT", "REJECTED"}
          /\ project[id].name /\ project[id].description
          /\ project[id].category /\ project[id].totalSupply
       THEN /\ project' = [project EXCEPT ![id].status = "PENDING_REVIEW"]
            /\ Begin(r, "submitProject", id, 0,
                     <<CalcInstr(id, "project")>>)
       ELSE /\ Refuse(r, "submitProject", id)
            /\ UNCHANGED project
    /\ UNCHANGED <<business, identity, ledger, nextId>>

\* ON DELETE CASCADE of TrustScoreEvent_projectId_fkey
Cascade(id) == SelectSeq(ledger, LAMBDA ev: ev.projectId # id)

\* DELETE /projects/:id
DeleteProject(r, id) ==
    /\ IF ProjectFound(id) /\ project[id].status = "DRAFT"
       THEN /\ project' = [project EXCEPT ![id] = DeletedProject]
            /\ ledger' = Cascade(id)
            /\ Begin(r, "deleteProject", id, 0, <<>>)
       ELSE /\ Refuse(r, "deleteProject", id)
            /\ UNCHANGED <<project, ledger>>
    /\ UNCHANGED <<business, identity, nextId>>

\* Bodies of PATCH /businesses/:id (ein is written only when truthy).
BusinessPatchInputs == {
    [ein |-> Undef, website |-> 0] }

\* PATCH /businesses/:id by its owner (no business of the model is LIVE).
PatchBusiness(r, id, in) ==
    /\ IF BusinessFound(id)
       THEN /\ business' = [business EXCEPT
                   ![id].ein = IF in.ein \notin {Undef, 0} THEN TRUE ELSE @,
                   ![id].website = GivenFlag(@, in.website)]
            /\ Begin(r, "patchBusiness", id, 0,
                     <<CalcInstr(id, "business")>>)
       ELSE /\ Refuse(r, "patchBusiness", id)
            /\ UNCHANGED business
    /\ UNCHANGED <<project, identity, ledger, nextId>>

\* POST /businesses/:id/submit
SubmitBusiness(r, id) ==
    /\ IF /\ BusinessFound(id)
          /\ business[id].status \in {"DRAFT", "REJECTED"}
          /\ business[id].legalName /\ business[id].entityType
          /\ business[id].jurisdiction /\ business[id].description
          /\ business[id].founders
       THEN /\ business' = [business EXCEPT ![id].status = "PENDING_REVIEW"]
            /\ Begin(r, "submitBusiness", id, 0,
                     <<CalcInstr(id, "business")>>)
       ELSE /\ Refuse(r, "submitBusiness", id)
            /\ UNCHANGED business
    /\ UNCHANGED <<project, identity, ledger, nextId>>

\* PATCH /admin/businesses/:id/status (without an internal note)
AdminBusinessStatus(r, id, status) ==
    /\ BusinessFound(id)
    /\ business' = [business EXCEPT ![id].status = status]
    /\ Begin(r, "adminBusinessStatus", id, 0,
             <<CalcInstr(id, "business")>>)
    /\ UNCHANGED <<project, identity, ledger, nextId>>

\* PATCH /admin/businesses/:id/kyb (without an internal note)
AdminKyb(r, id, level) ==
    /\ BusinessFound(id)
    /\ business' = [business EXCEPT ![id].kybLevel = level]
    /\ Begin(r, "adminKyb", id, 0, onKYBVerified(id, level))
    /\ UNCHANGED <<project, identity, ledger, nextId>>

\* ------------------------------------------------------------------- next
Next ==
    \/ \E r \in Requests, id \in Stored : GetScore(r, id, KindOf(id))
    \/ \E r \in Requests, id \in Stored, pts \in AdjustPoints :
          \E typ \in AdjustTypes(id) : AdminAdjust(r, id, typ, pts)
    \/ \E r \in Requests, id \in Stored \cap Businesses : ApplyMissedReportPenalty(r, id)
    \/ \E r \in Requests, id \in Stored \cap Projects :
          ApplyCommunityReportPenalty(r, id, KindOf(id))
    \/ \E r \in Requests, id \in Stored \cap Projects, m \in LockMonths : OnLiquidityLocked(r, id, m)
    \/ \E r \in Requests, id \in Stored \cap Projects, m \in VestingMonths :
          OnVestingConfigured(r, id, m)
    \/ \E r \in Requests, id \in Stored, d \in DocTypes :
          OnDocumentsUploaded(r, id, KindOf(id), d)
    \/ \E r \in Requests, u \in Owners, st \in WebhookStatuses : IdentityWebhook(r, u, st)
    \/ \E r \in Requests, id \in Stored \cap Projects, in \in ProjectPatchInputs :
          PatchProject(r, id, in)
    \/ \E r \in Requests, id \in Stored \cap Projects : SubmitProject(r, id)
    \/ \E r \in Requests, id \in Stored \cap Projects : DeleteProject(r, id)
    \/ \E r \in Requests, id \in Stored \cap Businesses, in \in BusinessPatchInputs :
          PatchBusiness(r, id, in)
    \/ \E r \in Requests, id \in Stored \cap Businesses : SubmitBusiness(r, id)
    \/ \E r \in Requests, id \in Stored \cap Businesses, st \in BusinessStatuses :
          AdminBusinessStatus(r, id, st)
    \/ \E r \in Requests, id \in Stored \cap Businesses, l \in KybLevels : AdminKyb(r, id, l)
    \/ \E r \in Requests : Create(r)
    \/ \E r \in Requests : CalcRead(r)
    \/ \E r \in Requests : CalcPenalties(r)
    \/ \E r \in Requests : CalcUpdate(r)
    \/ \E r \in Requests : Audit(r)
    \/ \E r \in Requests : Respond(r)

Spec == Init /\ [][Next]_vars

\* ------------------------------------------- the triggers, one at a time
\* One connection: the requests run one after the other.
Serial == {"r1"}

\* Months, levels and document types on both sides of every threshold of
\* the triggers ('legal' is a document type no trigger rewards).
TriggerLockMonths == {5, 6, 12}
TriggerVestingMonths == {11, 12, 24}
TriggerKybLevels == {"NONE", "BASIC", "STANDARD", "ENHANCED"}
TriggerDocTypes == {"financial", "audit", "legal"}

TriggerNext ==
    \/ \E r \in Serial, id \in Stored \cap Projects, m \in TriggerLockMonths :
          OnLiquidityLocked(r, id, m)
    \/ \E r \in Serial, id \in Stored \cap Projects, m \in TriggerVestingMonths :
          OnVestingConfigured(r, id, m)
    \/ \E r \in Serial, id \in Stored \cap Businesses, l \in TriggerKybLevels :
          AdminKyb(r, id, l)
    \/ \E r \in Serial, id \in Stored, d \in TriggerDocTypes :
          OnDocumentsUploaded(r, id, KindOf(id), d)
    \/ \E r \in Serial : Create(r)
    \/ \E r \in Serial : CalcRead(r)
    \/ \E r \in Serial : CalcPenalties(r)
    \/ \E r \in Serial : CalcUpdate(r)
    \/ \E r \in Serial : Respond(r)

TriggerSpec == Init /\ [][TriggerNext]_vars

\* ------------------------------------------------- the identity fan-out
\* The stores the fan-out starts from: any of the entities created, with
\* the required columns only, and no user verified.
FanInit ==
    /\ \E present \in SUBSET Entities :
          /\ project = [id \in Projects |->
                IF id \in present
                THEN NewProject(CHOOSE in \in ProjectCreateInputs : ~in.description)
                ELSE DeletedProject]
          /\ business = [id \in Businesses |->
                IF id \in present
                THEN NewBusiness(CHOOSE in \in BusinessCreateInputs : ~in.description)
                ELSE NoBusiness]
    /\ identity = [u \in Users |-> "NOT_STARTED"]
    /\ ledger = <<>>
    /\ nextId = 1
    /\ proc = [r \in Requests |-> Idle]
    /\ started = 0

FanNext ==
    \/ \E r \in Serial, u \in Users, st \in WebhookStatuses :
          IdentityWebhook(r, u, st)
    \/ \E r \in Serial : Create(r)
    \/ \E r \in Serial : CalcRead(r)
    \/ \E r \in Serial : CalcPenalties(r)
    \/ \E r \in Serial : CalcUpdate(r)
    \/ \E r \in Serial : Respond(r)

FanSpec == FanInit /\ [][FanNext]_vars

\* -------------------------------------------- the scores, one at a time
\* Months on both sides of every threshold of the lock and vesting rules.
LockTiers == {0, 5, 6, 11, 12, 13}
VestingTiers == {0, 11, 12, 23, 24, 25}

BareProject == CHOOSE in \in ProjectCreateInputs : ~in.description
RichProject == CHOOSE in \in ProjectCreateInputs : in.description
BareBusiness == CHOOSE in \in BusinessCreateInputs : ~in.description

\* The TrustScoreEvent row with id n that recordEvent creates for entity e.
Event(n, e, evt, pts, by) ==
    [id |-> n, projectId |-> IF e \in Projects THEN e ELSE Null,
     businessId |-> IF e \in Businesses THEN e ELSE Null,
     eventType |-> evt, points |-> pts, triggeredBy |-> by]

\* The events of ledger led that refer to entity e.
EventsIn(led, e) ==
    SelectSeq(led, LAMBDA ev:
        IF e \in Projects THEN ev.projectId = e ELSE ev.businessId = e)

\* The score the last recordEvent of e left in its row, given its rule
\* points and the ledger.
SettledScore(rules, led, e) ==
    Clamp(baseScore + SumSeq(rules)
          + SumSeq(PointsOf(SelectSeq(EventsIn(led, e),
                                      LAMBDA ev: ev.points < 0))))

\* A store with project p1 and business b1 after the requests that created
\* the events of led, one after the other: every entity with an event
\* carries the score that its last recomputation wrote.
World(p, b, idn, led) ==
    [project |->
        IF EventsIn(led, "p1") = <<>> THEN p
        ELSE Written(p, SettledScore(cryptoRules(p, [identity |-> idn]),
                                     led, "p1")),
     business |->
        IF EventsIn(led, "b1") = <<>> THEN b
        ELSE Written(b, SettledScore(
                 businessRules(b, [hasFinancialDocs |-> b.hasFinancialDocs,
                                   hasAuditDocs |-> b.hasAuditDocs]),
                 led, "b1")),
     identity |-> idn, ledger |-> led]

\* Fresh projects with every pair of lock and vesting months.
TierWorlds ==
    {World(NewProject([BareProject EXCEPT !.liquidityLockMonths = l,
                                          !.teamVestingMonths = v]),
           NewBusiness(BareBusiness), "NOT_STARTED", <<>>) :
        l \in LockTiers, v \in VestingTiers}

\* Fresh projects of a verified owner with an audit provider and report,
\* a lock of 12 months or more and a vesting of 24 months or more.
AuditedWorlds ==
    {World(NewProject([in EXCEPT !.liquidityLockMonths = l,
                                 !.teamVestingMonths = v,
                                 !.auditProvider = TRUE,
                                 !.auditReportUrl = TRUE]),
           NewBusiness(BareBusiness), "VERIFIED", <<>>) :
        in \in ProjectCreateInputs, l \in {12, 13}, v \in {24, 25}}

\* A business after PATCH kyb with a level that earns points.
KybWorlds ==
    {World(NewProject(BareProject),
           [NewBusiness(BareBusiness) EXCEPT !.kybLevel = l],
           "NOT_STARTED",
           <<Event(1, "b1", "KYB_VERIFIED", kybPoints(l), "system")>>) :
        l \in {"BASIC", "STANDARD", "ENHANCED"}}

\* A project with every optional column after adminAdjust with -k points.
AdjustedWorlds ==
    {World(NewProject(RichProject), NewBusiness(BareBusiness), "NOT_STARTED",
           <<Event(1, "p1", "MANUAL_ADJUSTMENT", 0 - k, "admin")>>) :
        k \in 1..MaxAdjustment}

\* A business with the required columns only after n missed reports.
PenalisedWorlds ==
    {World(NewProject(BareProject), NewBusiness(BareBusiness), "NOT_STARTED",
           [j \in 1..n |->
               Event(j, "b1", "PENALTY_APPLIED", missedReport, "system")]) :
        n \in 1..MaxPenalties}

\* A ledger of n events of both entities and of every sign: every fourth
\* event is of b1, every third one a penalty, the others are manual
\* adjustments of +5, every fifth of them of 0.
MixedEvent(j) ==
    LET e == IF j % 4 = 0 THEN "b1" ELSE "p1"
    IN  IF j % 3 = 0
        THEN IF e = "b1"
             THEN Event(j, e, "PENALTY_APPLIED", missedReport, "system")
             ELSE Event(j, e, "PENALTY_APPLIED", communityReport, "governance")
        ELSE Event(j, e, "MANUAL_ADJUSTMENT", IF j % 5 = 0 THEN 0 ELSE 5,
                   "admin")

HistoryWorlds ==
    {World(NewProject(BareProject), NewBusiness(BareBusiness), "NOT_STARTED",
           [j \in 1..n |-> MixedEvent(j)]) :
        n \in 1..MaxEvents}

ScoreWorlds ==
    TierWorlds \cup AuditedWorlds \cup KybWorlds \cup AdjustedWorlds
        \cup PenalisedWorlds \cup HistoryWorlds

ScoreInit ==
    /\ \E w \in ScoreWorlds :
          /\ project = [id \in Projects |->
                IF id = "p1" THEN w.project ELSE DeletedProject]
          /\ business = [id \in Businesses |->
                IF id = "b1" THEN w.business ELSE NoBusiness]
          /\ identity = [u \in Users |->
                IF u = "u1" THEN w.identity ELSE "NOT_STARTED"]
          /\ ledger = w.ledger
          /\ nextId = Len(w.ledger) + 1
    /\ proc = [r \in Requests |-> Idle]
    /\ started = 0

ScoreNext ==
    \/ \E r \in Serial, id \in Stored : GetScore(r, id, KindOf(id))
    \/ \E r \in Serial, id \in Stored \cap Businesses :
          ApplyMissedReportPenalty(r, id)
    \/ \E r \in Serial, id \in Stored :
          ApplyCommunityReportPenalty(r, id, KindOf(id))
    \/ \E r \in Serial : Create(r)
    \/ \E r \in Serial : CalcRead(r)
    \/ \E r \in Serial : CalcPenalties(r)
    \/ \E r \in Serial : CalcUpdate(r)
    \/ \E r \in Serial : Respond(r)

ScoreSpec == ScoreInit /\ [][ScoreNext]_vars

\* --------------------------------------------- the adjustment requests
\* Bodies of POST /admin/trust-score/adjust: "" is a field that is absent
\* or empty, Undef are points that are undefined.
AdjustBodies ==
    [entityId : Stored \cup {""},
     entityType : {"project", "business", "other", ""},
     points : AdjustPoints \cup {Undef},
     reason : {"reason", ""}]

\* POST /admin/trust-score/adjust: the 400 response, or adminAdjust.
PostAdjustFalsyPoints(r, body) ==
    IF \/ body.entityId = "" \/ body.entityType = ""
       \/ body.points \in {Undef, 0} \/ body.reason = ""
    THEN /\ Refuse(r, "adminAdjust", body.entityId)
         /\ UNCHANGED <<project, business, identity, ledger, nextId>>
    ELSE AdminAdjust(r, body.entityId, body.entityType, body.points)
PostAdjust(r, body) ==
    IF \/ body.entityId = "" \/ body.entityType = ""
       \/ body.points = Undef \/ body.reason = ""
    THEN /\ Refuse(r, "adminAdjust", body.entityId)
         /\ UNCHANGED <<project, business, identity, ledger, nextId>>
    ELSE AdminAdjust(r, body.entityId, body.entityType, body.points)

AdjustNext ==
    \/ \E r \in Serial, body \in AdjustBodies : PostAdjust(r, body)
    \/ \E r \in Serial : Create(r)
    \/ \E r \in Serial : CalcRead(r)
    \/ \E r \in Serial : CalcPenalties(r)
    \/ \E r \in Serial : CalcUpdate(r)
    \/ \E r \in Serial : Audit(r)
    \/ \E r \in Serial : Respond(r)

AdjustSpec == Init /\ [][AdjustNext]_vars

\* ------------------------------------------------ after lost updates
\* The ledger after n requests that ran at the same time: penalties of p1
\* and b1 in turn, and, as the first event of p1, possibly an adjustment.
StaleEvent(j, first) ==
    IF j % 2 = 0
    THEN Event(j, "b1", "PENALTY_APPLIED", missedReport, "system")
    ELSE IF j = 1 /\ first # communityReport
         THEN Event(j, "p1", "MANUAL_ADJUSTMENT", first, "admin")
         ELSE Event(j, "p1", "PENALTY_APPLIED", communityReport, "governance")

\* The stores in which the last write of each row came from a
\* recomputation that had read the ledger when it held only its first k
\* events, k < n: the events after the k-th are lost to the stored scores.
StaleWorld(p, b, led, k) ==
    [project |->
        Written(p, SettledScore(cryptoRules(p, [identity |-> "NOT_STARTED"]),
                                SubSeq(led, 1, k), "p1")),
     business |->
        Written(b, SettledScore(
            businessRules(b, [hasFinancialDocs |-> b.hasFinancialDocs,
                              hasAuditDocs |-> b.hasAuditDocs]),
            SubSeq(led, 1, k), "b1")),
     identity |-> "NOT_STARTED", ledger |-> led]

StaleWorlds ==
    {StaleWorld(NewProject(pin), NewBusiness(BareBusiness),
                [j \in 1..nk[1] |-> StaleEvent(j, first)], nk[2]) :
        pin \in ProjectCreateInputs,
        first \in {communityReport} \cup {a \in AdjustPoints : a < 0},
        nk \in {x \in (2..MaxPenalties) \X (0..MaxPenalties) : x[2] < x[1]}}

StaleInit ==
    /\ \E w \in StaleWorlds :
          /\ project = [id \in Projects |->
                IF id = "p1" THEN w.project ELSE DeletedProject]
          /\ business = [id \in Businesses |->
                IF id = "b1" THEN w.business ELSE NoBusiness]
          /\ identity = [u \in Users |-> w.identity]
          /\ ledger = w.ledger
          /\ nextId = Len(w.ledger) + 1
    /\ proc = [r \in Requests |-> Idle]
    /\ started = 0

\* One request at a time: getScore, or a trigger and its recomputation.
HealNext ==
    \/ \E r \in Serial, id \in Stored : GetScore(r, id, KindOf(id))
    \/ \E r \in Serial, id \in Stored \cap Businesses :
          ApplyMissedReportPenalty(r, id)
    \/ \E r \in Serial, id \in Stored :
          ApplyCommunityReportPenalty(r, id, KindOf(id))
    \/ \E r \in Serial : Create(r)
    \/ \E r \in Serial : CalcRead(r)
    \/ \E r \in Serial : CalcPenalties(r)
    \/ \E r \in Serial : CalcUpdate(r)
    \/ \E r \in Serial : Respond(r)

HealSpec == StaleInit /\ [][HealNext]_vars

\* ------------------------------------------- the handlers, one at a time
\* The handlers that change a column the rules read, one request at a time.
HandlerNext ==
    \/ \E r \in Serial, id \in Stored \cap Projects, in \in ProjectPatchInputs :
          PatchProject(r, id, in)
    \/ \E r \in Serial, id \in Stored \cap Businesses, l \in TriggerKybLevels :
          AdminKyb(r, id, l)
    \/ \E r \in Serial, u \in Owners, st \in WebhookStatuses :
          IdentityWebhook(r, u, st)
    \/ \E r \in Serial : Create(r)
    \/ \E r \in Serial : CalcRead(r)
    \/ \E r \in Serial : CalcPenalties(r)
    \/ \E r \in Serial : CalcUpdate(r)
    \/ \E r \in Serial : Respond(r)

HandlerSpec == Init /\ [][HandlerNext]_vars

\* ---------------------------------------------------- the rule tables
\* Rows with every combination of the columns the rules read.  No handler
\* sets contractVerified, founders are read by no rule, and the identity of
\* the owner is read by the rules of projects only.
RuleLockMonths == {0, 6, 12}
RuleVestingMonths == {0, 12, 24}
RuleProjects ==
    {NewProject(in) : in \in
        [description : BOOLEAN, category : BOOLEAN, totalSupply : BOOLEAN,
         teamAllocationPercent : BOOLEAN,
         liquidityLockMonths : RuleLockMonths,
         teamVestingMonths : RuleVestingMonths,
         auditProvider : BOOLEAN, auditReportUrl : BOOLEAN,
         whitepaper : BOOLEAN, social : BOOLEAN]}
RuleBusinesses ==
    {[NewBusiness(in) EXCEPT !.kybLevel = l] :
        in \in [entityType : BOOLEAN, jurisdiction : BOOLEAN,
                description : BOOLEAN, industry : BOOLEAN,
                businessEmail : BOOLEAN, website : BOOLEAN,
                ein : BOOLEAN, registrationNumber : BOOLEAN,
                founders : {FALSE}, hasFinancialDocs : BOOLEAN,
                hasAuditDocs : BOOLEAN],
        l \in TriggerKybLevels}

RuleInit ==
    /\ \/ /\ project \in [Projects -> RuleProjects \cup {DeletedProject}]
          /\ \A id \in Projects :
                project[id] = DeletedProject <=> id \notin Stored
          /\ business = [id \in Businesses |-> NoBusiness]
          /\ identity \in [Users -> {"NOT_STARTED", "VERIFIED"}]
          /\ \A u \in Users \ Owners : identity[u] = "NOT_STARTED"
       \/ /\ business \in [Businesses -> RuleBusinesses \cup {NoBusiness}]
          /\ \A id \in Businesses :
                business[id] = NoBusiness <=> id \notin Stored
          /\ project = [id \in Projects |-> DeletedProject]
          /\ identity = [u \in Users |-> "NOT_STARTED"]
    /\ ledger = <<>>
    /\ nextId = 1
    /\ proc = [r \in Requests |-> Idle]
    /\ started = 0

RuleNext ==
    \/ \E r \in Serial, id \in Stored : GetScore(r, id, KindOf(id))
    \/ \E r \in Serial : CalcRead(r)
    \/ \E r \in Serial : CalcPenalties(r)
    \/ \E r \in Serial : CalcUpdate(r)
    \/ \E r \in Serial : Respond(r)

RuleSpec == RuleInit /\ [][RuleNext]_vars

\* ------------------------------------------------- the store may fail
\* A store call of calculate*Score rejects (the findUnique, one of the two
\* findMany, or the update): the exception leaves calculate*Score and every
\* caller up to the handler, none of which catches it.
CalcFails(r) ==
    /\ \/ AtInstr(r, "calc")
       \/ Running(r) /\ proc[r].pc \in {"penalties", "update"}
    /\ proc' = [proc EXCEPT ![r] = Throw(@)]
    /\ UNCHANGED <<project, business, identity, ledger, nextId, started>>

FaultNext ==
    \/ \E r \in Serial, id \in Stored : GetScore(r, id, KindOf(id))
    \/ \E r \in Serial, id \in Stored, pts \in AdjustPoints :
          AdminAdjust(r, id, KindOf(id), pts)
    \/ \E r \in Serial, id \in Stored \cap Businesses :
          ApplyMissedReportPenalty(r, id)
    \/ \E r \in Serial, id \in Stored :
          ApplyCommunityReportPenalty(r, id, KindOf(id))
    \/ \E r \in Serial, u \in Owners, st \in WebhookStatuses :
          IdentityWebhook(r, u, st)
    \/ \E r \in Serial : Create(r)
    \/ \E r \in Serial : CalcRead(r)
    \/ \E r \in Serial : CalcPenalties(r)
    \/ \E r \in Serial : CalcUpdate(r)
    \/ \E r \in Serial : CalcFails(r)
    \/ \E r \in Serial : Audit(r)
    \/ \E r \in Serial : Respond(r)

FaultSpec == Init /\ [][FaultNext]_vars

\* prisma.trustScoreEvent.create of recordEvent rejects: no row is written,
\* the exception leaves recordEvent and its callers.
CreateFails(r) ==
    /\ AtInstr(r, "create")
    /\ proc' = [proc EXCEPT ![r] = Throw(@)]
    /\ UNCHANGED <<project, business, identity, ledger, nextId, started>>

\* The identity webhook over a store that may fail.
FanFaultNext ==
    \/ \E r \in Serial, u \in Users, st \in WebhookStatuses :
          IdentityWebhook(r, u, st)
    \/ \E r \in Serial : Create(r)
    \/ \E r \in Serial : CreateFails(r)
    \/ \E r \in Serial : CalcRead(r)
    \/ \E r \in Serial : CalcPenalties(r)
    \/ \E r \in Serial : CalcUpdate(r)
    \/ \E r \in Serial : CalcFails(r)
    \/ \E r \in Serial : Respond(r)

FanFaultSpec == FanInit /\ [][FanFaultNext]_vars

\* ===================================================================
\* Properties of the Trust Score Engine
\* ===================================================================

\* min(100, max(0, t)), written out.
ExplicitClamp(t) == IF t < 0 THEN 0 ELSE IF t > 100 THEN 100 ELSE t

\* The events of the ledger that refer to entity e, as a set.
LedgerOf(e) ==
    {ledger[i] : i \in {j \in 1..Len(ledger) :
        IF e \in Projects THEN ledger[j].projectId = e
        ELSE ledger[j].businessId = e}}

\* The sum of the points of a set of events, each event once.
RECURSIVE SumPoints(_)
SumPoints(S) ==
    IF S = {} THEN 0
    ELSE LET ev == CHOOSE x \in S : TRUE
         IN  ev.points + SumPoints(S \ {ev})

NegativeOf(e) == {ev \in LedgerOf(e) : ev.points < 0}

\* clamp(50 + rule points + negative ledger points) over the stored entity
\* and the ledger as they are now.
UnclampedNow(e) == 50 + RulePointsNow(e) + SumPoints(NegativeOf(e))
ExpectedNow(e) == ExplicitClamp(UnclampedNow(e))

\* The events of entity e that the request in slot r has created.
OwnEvents(r, e) ==
    {ev \in LedgerOf(e) :
        \E k \in 1..Len(proc[r].events) : proc[r].events[k] = ev.id}

\* The steps of a recomputation in slot r: it reads the entity, it reads the
\* ledger, it writes the score and returns.
ReadStep(r) ==
    Running(r) /\ proc[r].pc = "next" /\ proc'[r].pc = "penalties"
PenaltiesStep(r) ==
    Running(r) /\ proc[r].pc = "penalties" /\ proc'[r].pc = "update"
WriteStep(r) ==
    Running(r) /\ proc[r].pc = "update" /\ proc'[r].pc = "next"
        /\ proc'[r].status # "error"

\* ------------------------------------------------------------------ C1
\* C1: after any sequence of operations the persisted currentScore of every
\* entity, and every currentScore a recomputation computes or returns, is an
\* integer between 0 and 100.
C1_ScoreInRange ==
    /\ \A e \in Entities : Row(e).trustScore \in 0..100
    /\ \A r \in Requests :
          /\ proc[r].result # NoScore => proc[r].result \in 0..100
          /\ proc[r].pc = "update" => proc[r].total \in 0..100

\* A recomputation has persisted 0 for an entity whose unclamped total is
\* below 0.
C1_Witness ==
    \E e \in Entities :
        /\ Row(e).trustScoreUpdatedAt
        /\ Row(e).trustScore = 0
        /\ UnclampedNow(e) < 0

\* ------------------------------------------------------------------ C2
\* C2: recomputations of one entity are serialized: the value a
\* recomputation writes is clamp(50 + rule points + negative ledger points)
\* over the entity and the ledger as they are when it writes, so no write
\* is lost to a concurrent call.
C2_NoLostUpdate ==
    [][\A r \in Requests, e \in Entities :
          WriteStep(r) /\ Cur(r).id = e =>
              Row(e)'.trustScore = ExpectedNow(e)]_vars

\* ------------------------------------------------------------------ C3
\* C3: the ledger is append-only: every event that is in the ledger stays in
\* it, unchanged, whatever operation runs (the deletion of a draft project
\* included).
C3_AppendOnly ==
    [][\A i \in 1..Len(ledger) :
          \E j \in 1..Len(ledger') : ledger'[j] = ledger[i]]_vars

\* ------------------------------------------------------------------ C4
\* C4: whenever the persisted currentScore of an entity takes a new value,
\* the request that writes it has appended a LedgerEvent for that entity
\* (getScore and the update and submit handlers included).
C4_ChangeHasEvent ==
    [][\A e \in Entities :
          Row(e)'.trustScore # Row(e).trustScore =>
              \E r \in Requests :
                  /\ WriteStep(r) /\ Cur(r).id = e
                  /\ OwnEvents(r, e) # {}]_vars

\* ------------------------------------------------------------------ C5
\* C5: for an entity whose ledger holds no events a recomputation computes
\* 50 + the points of the kind's rules for the entity and its context, and
\* returns and persists min(100, max(0, that total)).
C5_NoEvents ==
    [][\A r \in Requests, e \in Entities :
          /\ ReadStep(r) /\ Cur(r).id = e =>
                proc'[r].raw = 50 + RulePointsNow(e)
          /\ PenaltiesStep(r) /\ Cur(r).id = e /\ LedgerOf(e) = {} =>
                proc'[r].total = ExplicitClamp(proc[r].raw)
          /\ WriteStep(r) /\ Cur(r).id = e =>
                /\ Row(e)'.trustScore = proc[r].total
                /\ proc'[r].result = proc[r].total]_vars

\* getScore of an entity without events has returned and persisted 100, its
\* rules being worth more than 50 points.
C5_Witness ==
    \E r \in Requests, e \in Entities :
        /\ proc[r].status = "ok" /\ proc[r].op = "getScore" /\ proc[r].id = e
        /\ LedgerOf(e) = {}
        /\ RulePointsNow(e) > 50
        /\ proc[r].result = 100
        /\ Row(e).trustScore = 100

\* ------------------------------------------------------------------ C6
\* C6: a recomputation over an entity, context and ledger that an earlier
\* recomputation has already scored returns the persisted currentScore and
\* leaves it as it is; in particular the second recomputation of an
\* adminAdjust that ran alone returns what its first one returned.
C6_Idempotent ==
    [][\A r \in Requests, e \in Entities :
          WriteStep(r) /\ Cur(r).id = e =>
              /\ ( /\ Row(e).trustScoreUpdatedAt
                   /\ Row(e).trustScore = ExpectedNow(e)
                   /\ proc[r].raw = UnclampedNow(e) )
                 => /\ Row(e)'.trustScore = Row(e).trustScore
                    /\ proc'[r].result = Row(e).trustScore
              /\ ( /\ started = 1
                   /\ proc[r].op = "adminAdjust"
                   /\ Len(proc[r].prog) = 1 )
                 => /\ Row(e)'.trustScore = Row(e).trustScore
                    /\ proc'[r].result = proc[r].result]_vars

\* An adminAdjust that ran alone has recomputed twice and returned the score
\* both recomputations persisted.
C6_Witness ==
    \E r \in Requests, e \in Entities :
        /\ started = 1
        /\ proc[r].status = "ok" /\ proc[r].op = "adminAdjust" /\ proc[r].id = e
        /\ Len(SelectSeq(proc[r].audits, LAMBDA a : a = "SCORE_CALCULATED")) = 2
        /\ Row(e).trustScoreUpdatedAt
        /\ proc[r].result = Row(e).trustScore
        /\ proc[r].result \notin {0, 50, 100}

\* ------------------------------------------------------------------ C7
\* C7: the pre-clamp total of a recomputation holds the points of every
\* negative event of the entity's ledger exactly once: it is 50 + the rule
\* points + the sum over the set of those events.
C7_EachNegativeOnce ==
    [][\A r \in Requests, e \in Entities :
          PenaltiesStep(r) /\ Cur(r).id = e =>
              proc'[r].raw = 50 + SumSeq(proc[r].factors)
                                + SumPoints(NegativeOf(e))]_vars

\* A recomputation has summed two negative events of one entity.
C7_Witness ==
    \E r \in Requests, e \in Entities :
        /\ Running(r) /\ proc[r].pc = "update" /\ Cur(r).id = e
        /\ Cardinality(NegativeOf(e)) >= 2
        /\ proc[r].raw = 50 + SumSeq(proc[r].factors) + SumPoints(NegativeOf(e))

\* ------------------------------------------------------------------ C8
\* C8: a positive event has no effect on a recomputation: the currentScore
\* it computes and persists is the one the ledger without its positive
\* events gives.
C8_PositiveNoEffect ==
    [][\A r \in Requests, e \in Entities :
          /\ PenaltiesStep(r) /\ Cur(r).id = e =>
                proc'[r].total =
                    ExplicitClamp(50 + SumSeq(proc[r].factors)
                        + SumPoints(LedgerOf(e) \ {ev \in LedgerOf(e) : ev.points > 0}))
          /\ WriteStep(r) /\ Cur(r).id = e =>
                Row(e)'.trustScore = proc[r].total]_vars

\* A business holds an IDENTITY_VERIFIED event of positive points, and its
\* recomputed score is the one of its rules alone although the points would
\* fit under 100.
C8_Witness ==
    \E e \in Businesses :
        /\ Row(e).trustScoreUpdatedAt
        /\ NegativeOf(e) = {}
        /\ \E ev \in LedgerOf(e) :
              /\ ev.eventType = "IDENTITY_VERIFIED" /\ ev.points > 0
              /\ 50 + RulePointsNow(e) + ev.points <= 100
        /\ Row(e).trustScore = 50 + RulePointsNow(e)

RECURSIVE SumBelowZero(_)
SumBelowZero(S) ==
    IF S = {} THEN 0
    ELSE LET ev == CHOOSE x \in S : TRUE
         IN  (IF ev.points < 0 THEN ev.points ELSE 0) + SumBelowZero(S \ {ev})

ManualOf(e) == {ev \in LedgerOf(e) : ev.eventType = "MANUAL_ADJUSTMENT"}

C10_AppendThenRecompute ==
    [][\A r \in Requests, e \in Entities :
          ( /\ AtInstr(r, "create") /\ Cur(r).id = e
            /\ proc'[r] # proc[r] /\ proc'[r].status # "error" )
          => /\ Len(ledger') = Len(ledger) + 1
             /\ \A i \in 1..Len(ledger) : ledger'[i] = ledger[i]
             /\ LET ev == ledger'[Len(ledger')]
                IN  IF e \in Projects THEN ev.projectId = e
                    ELSE ev.businessId = e
             /\ proc'[r].prog # <<>>
             /\ Head(proc'[r].prog) = CalcInstr(e, Cur(r).typ)]_vars

\* The score fields of an entity.
ScoreFields(e) == <<Row(e).trustScore, Row(e).trustScoreUpdatedAt>>

\* A step in which a named trigger is called with a value that earns no
\* points: a lock under 6 months, a vesting under 12 months, a KYB level
\* other than BASIC, STANDARD, ENHANCED, a document type that does not match
\* the entity type.
ZeroTrigger(r) ==
    \/ \E id \in Projects, m \in TriggerLockMonths :
          m < 6 /\ OnLiquidityLocked(r, id, m)
    \/ \E id \in Projects, m \in TriggerVestingMonths :
          m < 12 /\ OnVestingConfigured(r, id, m)
    \/ \E id \in Businesses, l \in TriggerKybLevels :
          l \notin {"BASIC", "STANDARD", "ENHANCED"} /\ AdminKyb(r, id, l)
    \/ \E id \in Entities, d \in TriggerDocTypes :
          /\ <<KindOf(id), d>> \notin {<<"business", "financial">>,
                                       <<"project", "audit">>}
          /\ OnDocumentsUploaded(r, id, KindOf(id), d)

\* The request of slot r is over and has neither created an event nor
\* recomputed a score.
DidNothing(r) ==
    /\ proc[r].status = "ok"
    /\ proc[r].events = <<>>
    /\ proc[r].calcs = <<>>

TriggerOps == {"onLiquidityLocked", "onVestingConfigured", "adminKyb",
               "onDocumentsUploaded"}

\* C11: a named trigger called with a zero point value is a no-op: the call
\* leaves the ledger and the score and trustScoreUpdatedAt of every entity
\* unchanged, has nothing left to run (no event is created, no score is
\* recomputed), and the only step that follows is its response, which
\* changes none of them either.
C11_ZeroTriggerNoOp ==
    [][\A r \in Requests :
          /\ ZeroTrigger(r) =>
                /\ ledger' = ledger /\ nextId' = nextId
                /\ \A e \in Entities : ScoreFields(e)' = ScoreFields(e)
                /\ proc'[r].prog = <<>>
                /\ DidNothing(r)'
          /\ (proc[r].op \in TriggerOps /\ DidNothing(r)) =>
                /\ ledger' = ledger /\ nextId' = nextId
                /\ \A e \in Entities : ScoreFields(e)' = ScoreFields(e)
                /\ proc'[r] = Idle]_vars

\* A KYB level of NONE was set after a level that earns points, and the
\* call of onKYBVerified did nothing.
C11_Witness ==
    \E r \in Requests, e \in Businesses :
        /\ proc[r].op = "adminKyb" /\ proc[r].id = e
        /\ DidNothing(r)
        /\ business[e].kybLevel = "NONE"
        /\ EventsOf(e, "business") # <<>>

\* C12: a trigger whose point value is zero still recomputes the score of
\* its entity: every trigger request that is over has recomputed a score.
C12_ZeroTriggerRecomputes ==
    \A r \in Requests :
        (proc[r].op \in TriggerOps /\ proc[r].status = "ok")
            => proc[r].calcs # <<>>

\* The events of the ledger that the request of slot r created.
CreatedBy(r) ==
    {ledger[j] : j \in {k \in 1..Len(ledger) :
                          \E n \in 1..Len(proc[r].events) :
                              proc[r].events[n] = ledger[k].id}}

\* The entity an event refers to.
RefersTo(ev, e) == IF e \in Projects THEN ev.projectId = e ELSE ev.businessId = e

\* The rows whose userId is u.
OwnedBy(u) == {e \in Entities : Row(e).exists /\ userIdOf(e) = u}

\* C13: onIdentityVerified fans out: when the webhook that verified user u
\* is over, it has appended exactly one IDENTITY_VERIFIED event for each
\* project and each business of u, has recomputed each of them once (m + n
\* recomputations), and has created no event and recomputed nothing for an
\* entity of another user.
C13_FanOut ==
    \A r \in Requests, u \in Users :
        (/\ proc[r].op = "identityWebhook" /\ proc[r].id = u
         /\ proc[r].status = "ok" /\ identity[u] = "VERIFIED")
        => /\ \A e \in OwnedBy(u) :
                 /\ Cardinality({ev \in CreatedBy(r) : RefersTo(ev, e)}) = 1
                 /\ \A ev \in CreatedBy(r) :
                       RefersTo(ev, e) => ev.eventType = "IDENTITY_VERIFIED"
                 /\ Cardinality({k \in 1..Len(proc[r].calcs) :
                                    proc[r].calcs[k] = e}) = 1
           /\ Len(proc[r].events) = Cardinality(OwnedBy(u))
           /\ Len(proc[r].calcs) = Cardinality(OwnedBy(u))
           /\ \A e \in Entities \ OwnedBy(u) :
                 /\ \A ev \in CreatedBy(r) : ~RefersTo(ev, e)
                 /\ \A k \in 1..Len(proc[r].calcs) : proc[r].calcs[k] # e

\* The webhook of a user with two projects and one business is over, and
\* the business of another user exists.
C13_Witness ==
    \E r \in Requests :
        /\ proc[r].op = "identityWebhook" /\ proc[r].id = "u1"
        /\ proc[r].status = "ok" /\ identity["u1"] = "VERIFIED"
        /\ OwnedBy("u1") = {"p1", "p2", "b1"}
        /\ Row("b2").exists
        /\ Len(proc[r].calcs) = 3
        /\ Len(ledger) = 3

\* The tier tables of the lock, vesting and KYB bonuses.
LockBonus(m) == IF m < 6 THEN 0 ELSE IF m < 12 THEN 15 ELSE 20
VestingBonus(m) == IF m < 12 THEN 0 ELSE IF m < 24 THEN 10 ELSE 15
KybBonus(l) ==
    IF l = "BASIC" THEN 10 ELSE IF l = "STANDARD" THEN 15
    ELSE IF l = "ENHANCED" THEN 20 ELSE 0

\* The factors of the lock rules and of the vesting rules of a project with
\* the given months.
TierFactors(l, v) ==
    cryptoRules(NewProject([BareProject EXCEPT !.liquidityLockMonths = l,
                                               !.teamVestingMonths = v]),
                [identity |-> "NOT_STARTED"])
LockSum == [m \in LockTiers |-> TierFactors(m, 0)[2] + TierFactors(m, 0)[3]]
VestingSum ==
    [m \in VestingTiers |-> TierFactors(0, m)[4] + TierFactors(0, m)[5]]

\* A longer lock or vesting never earns less.
TiersMonotonic ==
    /\ \A m1, m2 \in LockTiers : m1 <= m2 => LockSum[m1] <= LockSum[m2]
    /\ \A m1, m2 \in VestingTiers :
          m1 <= m2 => VestingSum[m1] <= VestingSum[m2]

\* A recomputation of slot r has evaluated the rules of entity e.
Evaluated(r, e) ==
    /\ Running(r) /\ proc[r].pc \in {"penalties", "update"}
    /\ Cur(r).id = e

\* C14: the tier bonuses are monotonic and not counted twice: in every
\* recomputation the lock rules sum to 0, 15, 20 for a lock under 6, of 6
\* to 11, of 12 or more months, the vesting rules to 0, 10, 15 for a
\* vesting under 12, of 12 to 23, of 24 or more months, the KYB rules to
\* 0, 10, 15, 20 for NONE, BASIC, STANDARD, ENHANCED; a longer lock or
\* vesting never earns less.
C14_TierBonuses ==
    /\ \A r \in Requests, e \in Projects :
          Evaluated(r, e) =>
            /\ proc[r].factors[2] + proc[r].factors[3]
                  = LockBonus(project[e].liquidityLockMonths)
            /\ proc[r].factors[4] + proc[r].factors[5]
                  = VestingBonus(project[e].teamVestingMonths)
    /\ \A r \in Requests, e \in Businesses :
          Evaluated(r, e) =>
            proc[r].factors[1] + proc[r].factors[2] + proc[r].factors[3]
                = KybBonus(business[e].kybLevel)
    /\ TiersMonotonic

\* The rules of a project with a lock of 13 months and a vesting of 23
\* months have been evaluated: 20 and 10 points.
C14_Witness ==
    \E r \in Requests, e \in Projects :
        /\ Evaluated(r, e)
        /\ project[e].liquidityLockMonths = 13
        /\ project[e].teamVestingMonths = 23
        /\ proc[r].factors[2] + proc[r].factors[3] = 20
        /\ proc[r].factors[4] + proc[r].factors[5] = 10

\* The tier table of the specification.
TierTable ==
    [s \in 0..100 |->
        IF s \in 85..100 THEN "EXCELLENT"
        ELSE IF s \in 70..84 THEN "GOOD"
        ELSE IF s \in 50..69 THEN "NEUTRAL"
        ELSE IF s \in 30..49 THEN "CAUTION"
        ELSE "HIGH_RISK"]

\* getTier agrees with the table on every score.
TierOfEveryScore == \A s \in 0..100 : getTier(s) = TierTable[s]

\* C15: getTier classifies every score from 0 to 100 by the thresholds
\* (EXCELLENT from 85, GOOD 70 to 84, NEUTRAL 50 to 69, CAUTION 30 to 49,
\* HIGH_RISK 0 to 29), and the tier of every result returned is the
\* classification of its currentScore.
C15_TierOfScore ==
    /\ TierOfEveryScore
    /\ \A r \in Requests :
          proc[r].result # NoScore
            => /\ proc[r].result \in 0..100
               /\ proc[r].tier = TierTable[proc[r].result]

\* A result with currentScore 84, the highest score that is GOOD.
C15_Witness ==
    \E r \in Requests : proc[r].result = 84 /\ proc[r].tier = "GOOD"

\* Project e has no attribute set (its name is required) and no event, and
\* its owner is not verified.
FreshProject(e) ==
    /\ project[e].exists
    /\ ~project[e].description /\ ~project[e].category
    /\ ~project[e].totalSupply /\ ~project[e].teamAllocationPercent
    /\ project[e].liquidityLockMonths = 0 /\ project[e].teamVestingMonths = 0
    /\ ~project[e].auditProvider /\ ~project[e].auditReportUrl
    /\ ~project[e].whitepaper /\ ~project[e].social
    /\ ~project[e].contractVerified
    /\ identity[userIdOf(e)] # "VERIFIED"
    /\ LedgerOf(e) = {}

\* getScore of entity e in slot r has built its result (the factors are
\* still at hand), or has returned it.
ResultBuilt(r, e) ==
    /\ proc[r].op = "getScore" /\ proc[r].id = e
    /\ Running(r) /\ proc[r].pc = "update"
Returned(r, e) ==
    /\ proc[r].op = "getScore" /\ proc[r].id = e
    /\ proc[r].status = "ok"

WellAttested(e) ==
    /\ project[e].exists
    /\ project[e].liquidityLockMonths = 12
    /\ project[e].teamVestingMonths = 24
    /\ identity[userIdOf(e)] = "VERIFIED"
    /\ project[e].auditProvider /\ project[e].auditReportUrl
    /\ NegativeOf(e) = {}

\* C17: when base plus rule points exceed 100 the score is capped at 100: a
\* recomputation of a project with a lock of 12 months, a vesting of 24
\* months, a verified owner, audit provider and report and no negative
\* events has a total of at least 115 before the clamp, and its result has
\* currentScore 100 and tier EXCELLENT.
C17_CappedAtHundred ==
    \A r \in Requests, e \in Projects :
        /\ (ResultBuilt(r, e) /\ proc[r].raw > 100) => proc[r].total = 100
        /\ WellAttested(e) =>
              /\ ResultBuilt(r, e) =>
                    /\ proc[r].raw >= 50 + 20 + 20 + 15 + 10
                    /\ proc[r].raw = 50 + SumSeq(proc[r].factors)
                    /\ proc[r].total = 100
              /\ Returned(r, e) =>
                    /\ proc[r].result = 100 /\ proc[r].tier = "EXCELLENT"
                    /\ project[e].trustScore = 100

\* getScore of such a project has returned.
C17_Witness ==
    \E r \in Requests, e \in Projects :
        /\ WellAttested(e) /\ Returned(r, e)
        /\ ~project[e].description
        /\ proc[r].result = 100

\* Business e has no attribute set (its legal name is required), and all
\* its events are the penalties of missed reports.
BareAndPenalised(e) ==
    /\ business[e].exists /\ business[e].kybLevel = "NONE"
    /\ ~business[e].entityType /\ ~business[e].jurisdiction
    /\ ~business[e].description /\ ~business[e].industry
    /\ ~business[e].businessEmail /\ ~business[e].website
    /\ ~business[e].ein /\ ~business[e].registrationNumber
    /\ ~business[e].hasFinancialDocs /\ ~business[e].hasAuditDocs
    /\ \A ev \in LedgerOf(e) :
          /\ ev.eventType = "PENALTY_APPLIED" /\ ev.points = -15
          /\ ev.triggeredBy = "system"

\* The request of slot r was a call of the penalty helper op, is over, and
\* has appended exactly one PENALTY_APPLIED event of -15 points for its
\* entity, triggered by the given actor.
OnePenalty(r, op, by) ==
    (proc[r].op = op /\ proc[r].status = "ok")
        => \E ev \in LedgerOf(proc[r].id) :
              /\ proc[r].events = <<ev.id>>
              /\ ev.eventType = "PENALTY_APPLIED" /\ ev.points = -15
              /\ ev.triggeredBy = by

\* A recomputation of business e has returned to the request of slot r.
Recomputed(r, e) ==
    /\ proc[r].id = e /\ proc[r].status = "ok" /\ proc[r].calcs # <<>>

C20_History ==
    \A r \in Requests, e \in Entities :
        Recomputed(r, e) =>
            LET h == proc[r].history
                n == Cardinality(LedgerOf(e))
            IN  /\ Len(h) = IF n < 10 THEN n ELSE 10
                /\ \A k \in 1..Len(h) :
                      /\ h[k].score = proc[r].result
                      /\ \E ev \in LedgerOf(e) :
                            /\ ev.id = h[k].date
                            /\ ev.eventType = h[k].eventType
                            /\ ev.points = h[k].points
                      /\ k < Len(h) => h[k].date > h[k + 1].date
                      /\ \A ev \in LedgerOf(e) :
                            ev.id > h[k].date
                                => \E j \in 1..Len(h) : h[j].date = ev.id

\* The result of an entity with 12 events: 10 entries with positive, zero
\* and negative points, the two oldest events left out.
C20_Witness ==
    \E r \in Requests, e \in Entities :
        /\ Recomputed(r, e)
        /\ Cardinality(LedgerOf(e)) = 12
        /\ Len(proc[r].history) = 10
        /\ \E i, j, k \in 1..10 :
              /\ proc[r].history[i].points > 0
              /\ proc[r].history[j].points = 0
              /\ proc[r].history[k].points < 0

\* The id resolves to an entity of the given kind.
Resolves(id, typ) ==
    \/ typ = "project" /\ id \in Projects /\ project[id].exists
    \/ typ = "business" /\ id \in Businesses /\ business[id].exists

\* The request of slot r takes a step.
StepOf(r) == proc'[r] # proc[r]

\* C21: a recordEvent or a recomputation (of getScore, of adminAdjust, of
\* any trigger) that starts on an id that does not resolve to an entity of
\* the given kind ends in an error, and leaves every score, the ledger and
\* the SCORE_CALCULATED records unchanged: no event is left behind.
C21_NotFound ==
    [][\A r \in Requests :
          ( /\ StepOf(r)
            /\ AtInstr(r, "create") \/ AtInstr(r, "calc")
            /\ ~Resolves(Cur(r).id, Cur(r).typ) )
          => /\ proc'[r].status = "error"
             /\ ledger' = ledger
             /\ \A e \in Entities : ScoreFields(e)' = ScoreFields(e)
             /\ proc'[r].audits = proc[r].audits]_vars

\* The body lacks its entity id, its entity type, its points or its reason.
Lacking(body) ==
    body \in [entityId : {""}, entityType : {"project", "business", "other", ""},
              points : AdjustPoints \cup {Undef}, reason : {"reason", ""}]
        \cup [entityId : Stored \cup {""}, entityType : {""},
               points : AdjustPoints \cup {Undef}, reason : {"reason", ""}]
        \cup [entityId : Stored \cup {""},
               entityType : {"project", "business", "other", ""},
               points : {Undef}, reason : {"reason", ""}]
        \cup [entityId : Stored \cup {""},
               entityType : {"project", "business", "other", ""},
               points : AdjustPoints \cup {Undef}, reason : {""}]

\* The request of slot r was rejected before it did anything.
Rejected(r) ==
    /\ proc[r].status = "error" /\ proc[r].prog = <<>>
    /\ proc[r].events = <<>> /\ proc[r].calcs = <<>> /\ proc[r].audits = <<>>
    /\ ~proc[r].logFailed

\* C22: an adjustment request that lacks its entity id, entity type, points
\* or reason is rejected before adminAdjust is called: the ledger and every
\* score stay as they are while it is rejected and answered; a request that
\* lacks nothing, points = 0 included, is accepted: adminAdjust starts with
\* the creation of its event, of the points of the body.
C22_InvalidInput ==
    [][\A r \in Requests :
          /\ \A body \in AdjustBodies :
                PostAdjust(r, body) =>
                    IF Lacking(body)
                    THEN /\ Rejected(r)'
                         /\ ledger' = ledger /\ nextId' = nextId
                         /\ \A e \in Entities :
                               ScoreFields(e)' = ScoreFields(e)
                    ELSE /\ proc'[r].status = "run"
                         /\ Head(proc'[r].prog).k = "create"
                         /\ Head(proc'[r].prog).pts = body.points
          /\ (proc[r].op = "adminAdjust" /\ Rejected(r)) =>
                /\ ledger' = ledger /\ nextId' = nextId
                /\ \A e \in Entities : ScoreFields(e)' = ScoreFields(e)
                /\ proc'[r] = Idle]_vars

\* An adjustment of 0 points has been accepted and carried out, the only
\* one of two requests that has left an event.
C22_Witness ==
    \E r \in Requests, e \in Entities :
        /\ proc[r].op = "adminAdjust" /\ proc[r].id = e
        /\ proc[r].status = "ok" /\ started = 2
        /\ Len(ledger) = 1
        /\ ledger[1].points = 0 /\ ledger[1].eventType = "MANUAL_ADJUSTMENT"
        /\ RefersTo(ledger[1], e)
        /\ Len(proc[r].calcs) = 2

\* The update of a recomputation in slot r finds its row.
UpdateFinds(r) ==
    /\ Running(r) /\ proc[r].pc = "update"
    /\ IF Cur(r).typ = "project"
       THEN Cur(r).id \in Projects /\ project[Cur(r).id].exists
       ELSE Cur(r).id \in Businesses /\ business[Cur(r).id].exists

\* The request of slot r goes on with the rest of its program.
GoesOn(r) ==
    /\ proc'[r].prog = Tail(proc[r].prog)
    /\ proc'[r].status = IF Tail(proc[r].prog) = <<>> THEN "ok" ELSE "run"
    /\ proc'[r].events = proc[r].events

\* C23: a failure of the audit-log write never aborts the operation: the
\* step of a recomputation whose SCORE_CALCULATED record is not written
\* still persists the new score and returns it, the audit step of
\* adminAdjust whose record is not written just ends, and in both cases the
\* ledger keeps its events and the request goes on without an error.
C23_AuditFailureSwallowed ==
    [][\A r \in Requests :
          (StepOf(r) /\ proc'[r].audits = proc[r].audits) =>
              /\ UpdateFinds(r) =>
                    /\ \A e \in Entities :
                          Cur(r).id = e =>
                              /\ Row(e)'.trustScore = proc[r].total
                              /\ Row(e)'.trustScoreUpdatedAt
                    /\ proc'[r].result = proc[r].total
                    /\ proc'[r].calcs = Append(proc[r].calcs, Cur(r).id)
                    /\ ledger' = ledger
                    /\ GoesOn(r)
              /\ AtInstr(r, "audit") =>
                    /\ proc'[r].logFailed
                    /\ ledger' = ledger
                    /\ \A e \in Entities : ScoreFields(e)' = ScoreFields(e)
                    /\ GoesOn(r)]_vars

\* An adminAdjust is over without an error although none of its three
\* audit-log writes succeeded: its event is in the ledger and the score it
\* returned is the stored one.
C23_Witness ==
    \E r \in Requests, e \in Entities :
        /\ proc[r].op = "adminAdjust" /\ proc[r].id = e
        /\ proc[r].status = "ok"
        /\ proc[r].logFailed /\ proc[r].audits = <<>>
        /\ Len(proc[r].calcs) = 2
        /\ \E ev \in LedgerOf(e) :
              proc[r].events = <<ev.id>> /\ ev.points < 0
        /\ proc[r].result = Row(e).trustScore
        /\ proc[r].result = ExpectedNow(e)

\* The request of slot r is inside a recomputation.
InCalc(r) ==
    \/ AtInstr(r, "calc")
    \/ Running(r) /\ proc[r].pc \in {"penalties", "update"}

\* A step of slot r in which its recomputation ends without returning.
CalcFailed(r) ==
    /\ InCalc(r) /\ StepOf(r)
    /\ proc'[r].pc = "next"
    /\ proc'[r].calcs = proc[r].calcs

\* The stores are left as they are.
StoresKept ==
    /\ ledger' = ledger /\ nextId' = nextId
    /\ \A e \in Entities : ScoreFields(e)' = ScoreFields(e)

\* C24: a failure of a store call of a recomputation propagates: the
\* request it runs in (getScore, a penalty, adminAdjust, the identity
\* fan-out) ends at once with an error and runs nothing more, the ledger
\* keeps the event appended before; an error never turns into a success,
\* and a request that ended in success has completed every recomputation
\* of its program: one per event it created, and the second one of
\* adminAdjust.
C24_StorageFailurePropagates ==
    [][\A r \in Requests :
          /\ CalcFailed(r) =>
                /\ proc'[r].status = "error"
                /\ proc'[r].prog = <<>>
                /\ proc'[r].events = proc[r].events
                /\ StoresKept
          /\ (proc[r].status = "error" /\ StepOf(r)) =>
                proc'[r] = Idle /\ StoresKept
          /\ proc'[r].status = "ok" =>
                /\ Len(proc'[r].calcs) >= Len(proc'[r].events)
                /\ \A ev \in CreatedBy(r)' :
                      \E k \in 1..Len(proc'[r].calcs) :
                          RefersTo(ev, proc'[r].calcs[k])
                /\ proc'[r].op = "adminAdjust" => Len(proc'[r].calcs) = 2
                /\ proc'[r].op = "getScore" => Len(proc'[r].calcs) = 1]_vars

\* An adminAdjust ended with an error in its first recomputation: its
\* event is in the ledger of an entity that exists, and the stored score
\* does not count it.
C24_Witness ==
    \E r \in Requests, e \in Entities :
        /\ proc[r].op = "adminAdjust" /\ proc[r].id = e
        /\ proc[r].status = "error"
        /\ proc[r].calcs = <<>>
        /\ Row(e).exists
        /\ \E ev \in LedgerOf(e) :
              proc[r].events = <<ev.id>> /\ ev.points < 0
        /\ Row(e).trustScore # ExpectedNow(e)

\* C25: every event of the ledger refers to exactly one entity: exactly one
\* of its project and business references is set, and the row it names
\* exists.
C25_OneEntityPerEvent ==
    \A i \in 1..Len(ledger) :
        LET ev == ledger[i]
        IN  /\ (ev.projectId = Null) # (ev.businessId = Null)
            /\ ev.projectId # Null => ProjectFound(ev.projectId)
            /\ ev.businessId # Null => BusinessFound(ev.businessId)

\* C26: the score fields of a row are written only by a recomputation of
\* that row: every step that changes them is the write of a running
\* calculate*Score of this entity, which stores the total it computed; the
\* handlers (update, submit, admin status, KYB) change them in no step of
\* their own.  The write leaves the score fields of every other entity and
\* the whole ledger as they are.
C26_ScoreWrittenByRecompute ==
    [][/\ \A e \in Entities :
             ( /\ Row(e).exists /\ Row(e).exists'
               /\ ScoreFields(e)' # ScoreFields(e) )
             => \E r \in Requests :
                   /\ WriteStep(r)
                   /\ Cur(r).id = e
                   /\ Row(e).trustScore' = proc[r].total
       /\ \A r \in Requests, e \in Entities :
             (WriteStep(r) /\ Cur(r).id = e)
             => /\ ledger' = ledger
                /\ \A o \in Entities \ {e} : ScoreFields(o)' = ScoreFields(o)]_vars

\* A handler has finished after it changed a row and recomputed it: the
\* project carries the score of that recomputation, the business next to it
\* was never written.
C26_Witness ==
    \E r \in Requests, e \in Projects, o \in Businesses :
        /\ proc[r].op \in {"patchProject", "submitProject"}
        /\ proc[r].status = "ok"
        /\ proc[r].calcs = <<e>>
        /\ Row(e).trustScore = proc[r].result
        /\ Row(e).trustScore # baseScore
        /\ Row(o).exists /\ ~Row(o).trustScoreUpdatedAt

\* The number of columns of a list that are filled in.
Filled(fields) == Cardinality({k \in 1..Len(fields) : fields[k]})

\* n is the integer part of num / den.
IsFloor(n, num, den) == n * den <= num /\ num < (n + 1) * den

\* The factors of the recomputation slot r is in, once its rule loop is
\* over.
FactorsOf(r) ==
    IF Cur(r).typ = "project"
    THEN Factors(cryptoRuleNames, cryptoMaxPoints, proc[r].factors)
    ELSE Factors(businessRuleNames, businessMaxPoints, proc[r].factors)

\* C27: every rule contributes between 0 and its maxPoints: the factors
\* list has one entry per rule in the order of the rule table, each with
\* 0 <= points <= maxPoints and achieved exactly when points > 0; Complete
\* Profile awards floor(filled / all * max); Whitepaper & Socials awards 2
\* for the whitepaper plus 3 for any social, capped at its maximum.
C27_RulePoints ==
    \A r \in Requests :
        (Running(r) /\ proc[r].pc \in {"penalties", "update"}) =>
            LET f == FactorsOf(r)
                e == Cur(r).id
                isProject == Cur(r).typ = "project"
                names == IF isProject THEN cryptoRuleNames ELSE businessRuleNames
            IN  /\ Len(f) = Len(names)
                /\ Len(f) = IF isProject THEN 9 ELSE 7
                /\ \A k \in 1..Len(f) :
                      /\ f[k].name = names[k]
                      /\ 0 <= f[k].points /\ f[k].points <= f[k].maxPoints
                      /\ f[k].achieved <=> f[k].points > 0
                /\ isProject =>
                      LET p == project[e]
                          ws == (IF p.whitepaper THEN 2 ELSE 0)
                                    + (IF p.social THEN 3 ELSE 0)
                      IN  /\ IsFloor(f[6].points,
                                Filled(<<p.name, p.description, p.category,
                                        p.totalSupply, p.teamAllocationPercent>>)
                                    * f[6].maxPoints, 5)
                          /\ f[8].points =
                                IF ws > f[8].maxPoints THEN f[8].maxPoints ELSE ws
                /\ ~isProject =>
                      LET b == business[e]
                      IN  IsFloor(f[6].points,
                              Filled(<<b.legalName, b.entityType, b.jurisdiction,
                                      b.description, b.industry, b.businessEmail,
                                      b.website>>) * f[6].maxPoints, 7)

\* The rules of a business were evaluated where the floor rounds down (3
\* of its 7 profile columns filled in: 4 points), a KYB rule earned its
\* whole increment and another rule earned nothing.
C27_Witness ==
    \E r \in Requests :
        /\ Running(r) /\ proc[r].pc = "update"
        /\ Cur(r).typ = "business"
        /\ FactorsOf(r)[6].points = 4
        /\ FactorsOf(r)[3].points = FactorsOf(r)[3].maxPoints
        /\ ~FactorsOf(r)[4].achieved

\* A step in which the handler of slot r finishes with success.
HandlerDone(r) ==
    /\ proc[r].status # "ok" /\ proc'[r].status = "ok"
    /\ proc'[r].op \in {"patchProject", "adminKyb", "identityWebhook"}

\* The entities the handler of slot r is about.
TargetsOf(r) ==
    IF proc[r].op = "identityWebhook" THEN OwnedBy(proc[r].id)
    ELSE {proc[r].id}

\* C28: the persisted score is never stale after a handler: when a handler
\* that changed what the rules of an entity award (a KYB level, NONE
\* included, a whitepaper, a lock set to 0, an identity that is no longer
\* VERIFIED) or that recomputed the entity finishes and no request is in
\* flight, the stored score of the entity is the score a recomputation
\* would produce from the entity, its context and the ledger.
C28_NeverStale ==
    [][\A r \in Requests, e \in Entities :
          ( /\ HandlerDone(r)
            /\ e \in TargetsOf(r)' /\ Row(e).exists'
            /\ \A o \in Requests : ~Running(o)'
            /\ \/ RulePointsNow(e)' # RulePointsNow(e)
               \/ \E k \in 1..Len(proc'[r].calcs) : proc'[r].calcs[k] = e )
          => Row(e).trustScore' = ExpectedNow(e)']_vars

\* C29: lost updates heal: whatever score earlier interleaved requests
\* left in a row, a recomputation that runs alone to its end (getScore, or
\* the recomputation of a trigger) stores clamp(50 + rule points + all
\* negative ledger points) over the entity and the ledger as they are then
\* (the write changes neither the ledger nor what the rules award), and
\* returns that score.
C29_LostUpdatesHeal ==
    [][\A r \in Requests, e \in Entities :
          (WriteStep(r) /\ Cur(r).id = e) =>
              /\ ledger' = ledger
              /\ RulePointsNow(e)' = RulePointsNow(e)
              /\ Row(e).trustScore' = ExpectedNow(e)
              /\ proc'[r].result = ExpectedNow(e)]_vars

\* A recomputation that runs alone is about to write: the row still holds
\* a score that lost at least one of the penalties of its ledger, the total
\* to be written counts them all.
C29_Witness ==
    \E r \in Requests, e \in Entities :
        /\ Running(r) /\ proc[r].pc = "update" /\ Cur(r).id = e
        /\ Cardinality(NegativeOf(e)) >= 2
        /\ Row(e).trustScoreUpdatedAt
        /\ Row(e).trustScore > ExpectedNow(e)
        /\ proc[r].total = ExpectedNow(e)

\* The event with id n, and the entity it refers to.
EventOfId(n) == CHOOSE ev \in {ledger[i] : i \in 1..Len(ledger)} : ev.id = n
EntityOf(ev) == IF ev.projectId # Null THEN ev.projectId ELSE ev.businessId

\* The fan-out of the webhook in slot r, as far as it got: every event it
\* created is in the ledger; it creates the event of an entity, recomputes
\* that entity, and only then goes to the next one; its entities are
\* distinct entities of the user, and no project comes after a business.
FanOutSoFar(r) ==
    LET evs == proc[r].events
        calcs == proc[r].calcs
    IN  /\ \A k \in 1..Len(evs) :
              \E i \in 1..Len(ledger) : ledger[i].id = evs[k]
        /\ Len(calcs) <= Len(evs) /\ Len(evs) <= Len(calcs) + 1
        /\ \A k \in 1..Len(calcs) : EntityOf(EventOfId(evs[k])) = calcs[k]
        /\ \A k \in 1..Len(evs) :
              /\ EntityOf(EventOfId(evs[k])) \in OwnedBy(proc[r].id)
              /\ EventOfId(evs[k]).eventType = "IDENTITY_VERIFIED"
        /\ \A j, k \in 1..Len(evs) :
              j < k =>
                 /\ EntityOf(EventOfId(evs[j])) # EntityOf(EventOfId(evs[k]))
                 /\ ~( /\ EntityOf(EventOfId(evs[j])) \in Businesses
                       /\ EntityOf(EventOfId(evs[k])) \in Projects )
        /\ (\E k \in 1..Len(evs) : EntityOf(EventOfId(evs[k])) \in Businesses)
              => \A e \in OwnedBy(proc[r].id) \cap Projects :
                     \E k \in 1..Len(calcs) : calcs[k] = e

\* The fan-out of the webhook in slot r has failed: the entities it had
\* recomputed carry their new score, at least one entity of the user was
\* not recomputed, and the entities after the failing one have no event of
\* this request.
FanOutFailed(r) ==
    LET calcs == proc[r].calcs
    IN  /\ \A k \in 1..Len(calcs) :
              /\ Row(calcs[k]).trustScoreUpdatedAt
              /\ Row(calcs[k]).trustScore = ExpectedNow(calcs[k])
        /\ Len(calcs) < Cardinality(OwnedBy(proc[r].id))
        /\ Len(proc[r].events) <= Cardinality(OwnedBy(proc[r].id))
        /\ Cardinality(OwnedBy(proc[r].id)) - Len(proc[r].events)
              = Cardinality({e \in OwnedBy(proc[r].id) :
                                \A ev \in CreatedBy(r) : ~RefersTo(ev, e)})

\* C30: the fan-out of onIdentityVerified is sequential and not atomic: it
\* handles one entity at a time (the event, then the recomputation), all
\* projects before all businesses; once the create or the recomputation of
\* the k-th entity has failed the request has failed with nothing left to
\* run, the events and the scores of the k-1 entities before are in the
\* store (and the event of the k-th when its recomputation failed), and the
\* later entities have no event of the request.
C30_FanOutNotAtomic ==
    \A r \in Requests :
        proc[r].op = "identityWebhook" =>
            /\ FanOutSoFar(r)
            /\ proc[r].status = "error" =>
                  proc[r].prog = <<>> /\ FanOutFailed(r)

\* The webhook of a user with two projects and one business failed in the
\* recomputation of the second project: the first project has its event and
\* its new score, the second its event and its old score, the business
\* nothing.
C30_Witness ==
    \E r \in Requests :
        /\ proc[r].op = "identityWebhook" /\ proc[r].id = "u1"
        /\ proc[r].status = "error"
        /\ OwnedBy("u1") = {"p1", "p2", "b1"}
        /\ proc[r].calcs = <<"p1">>
        /\ Len(proc[r].events) = 2
        /\ Row("p1").trustScore = ExpectedNow("p1")
        /\ Row("p1").trustScore # baseScore
        /\ LedgerOf("p2") # {} /\ ~Row("p2").trustScoreUpdatedAt
        /\ LedgerOf("b1") = {}

====
